---- MODULE Spec2Model ----
(***************************************************************************)
(* Forecasting core of arqtic (src/forecast/predict.py): the multi-model   *)
(* NWP aggregation of fetch_nwp_history, the rolling bias correction and   *)
(* the report of evaluate_all_models, the baselines they report and the    *)
(* seasonal forecast of make_forecast; the forecast tab of the dashboard   *)
(* (src/dashboard/components/forecast_tab.py), the pipeline run            *)
(* (src/pipeline/run.py, load.py), the validation schemas of               *)
(* src/pipeline/quality.py and the enrichments of                          *)
(* src/pipeline/transform.py.                                              *)
(*                                                                         *)
(* Numbers are exact rationals <<n, d>> in lowest terms with d > 0; the    *)
(* missing value of a pandas column (NaN / None) is NA.  A table is a      *)
(* sequence of rows, a row a record.                                       *)
(***************************************************************************)
EXTENDS Integers, Sequences, FiniteSets, TLC

VARIABLES
    daily_df,     \* the caller's observation frame: rows [date, temperature_2m_max]
    api,          \* what the Open-Meteo API answers per model key
    phase,        \* the caller's position: fresh, evaluated, revised, reevaluated, fetched
    requested,    \* the model keys requests.get was called with in the last fetch, in order
    outcome,      \* of the last call: "none", "returned" or "raised"
    nwp,          \* the table fetch_nwp_history returned in the last call
    ev,           \* the locals of the last evaluate_all_models call at its return
    report,       \* the dict the last evaluate_all_models call returned
    prev,         \* outcome, locals and report of the call before the last one
    baselines_call, \* the last compute_baselines call: how it ended, its locals, its dict
    prophet,      \* how the Prophet library behaves on this input: fit and prediction
    forecast,     \* the last make_forecast call: how it ended and the frame it returned
    tab,          \* the forecast tab: the sources it fetches, its cache, what it rendered
    run,          \* the pipeline run: position of main, its frames, the files written
    checked,      \* the last validate call: the schema, the frame, how it ended
    reordered,    \* fetch_nwp_history run with the models in another order
    session,      \* a caller that calls one function repeatedly on its daily_df
    enriched      \* the last call of a transformation: the function, its frame, its result

vars == <<daily_df, api, phase, requested, outcome, nwp, ev, report, prev,
          baselines_call, prophet, forecast, tab, run, checked, reordered,
          session, enriched>>

\* the state of the validation and transformation functions
rest == <<checked, reordered, session, enriched>>

\* the state of the components other than the NWP evaluation
others == <<baselines_call, prophet, forecast, tab, run, rest>>

----------------------------------------------------------------------------
(* Bounds of the model *)

\* dates of the API window in the aggregator specification
MaxDates == 3
\* missing or absent cells in the API answers of the aggregator specification
MaxGaps == 2
\* rows of the observation frame in the month-long specification, at least
MinMonth == 30
\* rows of the observation frame in the evaluation specification
MaxDays == 16
\* rows of the observation frame in the baseline and seasonal specifications
MaxSeries == 4
\* periods asked of make_forecast in the seasonal specification
MaxPeriods == 3
\* rows of the observation frame in the dashboard specification
MaxHistory == 3
\* rows of the frame handed to validate
MaxRows == 2
\* calls a caller makes in a row with the same inputs
MaxCalls == 2
\* rows of the frame handed to flag_anomalies
MaxAnomalyDays == 18

----------------------------------------------------------------------------
(* Numbers: float64 columns as exact rationals, NaN as NA *)

NA == <<>>

IsNA(x) == x = NA

RECURSIVE Gcd(_, _)
Gcd(a, b) == IF b = 0 THEN a ELSE Gcd(b, a % b)

AbsInt(a) == IF a < 0 THEN -a ELSE a

\* the rational n/d (d # 0) in lowest terms with a positive denominator
Frac(n, d) ==
    LET g == Gcd(AbsInt(n), AbsInt(d))
        s == IF d < 0 THEN -1 ELSE 1
    IN  <<(s * n) \div g, (s * d) \div g>>

Num(i) == <<i, 1>>

\* pandas arithmetic: a missing operand gives a missing result
NumAdd(x, y) ==
    IF IsNA(x) \/ IsNA(y) THEN NA
    ELSE LET g == Gcd(x[2], y[2])
         IN  Frac(x[1] * (y[2] \div g) + y[1] * (x[2] \div g), (x[2] \div g) * y[2])

NumNeg(x) == IF IsNA(x) THEN NA ELSE <<-x[1], x[2]>>

NumSub(x, y) == NumAdd(x, NumNeg(y))

NumAbs(x) == IF IsNA(x) THEN NA ELSE <<AbsInt(x[1]), x[2]>>

NumDivInt(x, k) == IF IsNA(x) THEN NA ELSE Frac(x[1], x[2] * k)

\* the non-missing entries of a sequence of numbers, in order
DropNA(s) == SelectSeq(s, LAMBDA x : ~IsNA(x))

RECURSIVE NumSum(_)
NumSum(s) == IF s = <<>> THEN Num(0) ELSE NumAdd(Head(s), NumSum(Tail(s)))

\* Series.mean() / DataFrame.mean(axis=1): skipna=True, NaN when nothing is left
Mean(s) ==
    LET v == DropNA(s)
    IN  IF v = <<>> THEN NA ELSE NumDivInt(NumSum(v), Len(v))

\* floor of the rational n/d, d > 0
FloorDiv(n, d) == IF n >= 0 THEN n \div d ELSE -((-n + d - 1) \div d)

\* the digits after the point: floor(r/d * 10^nd) and what is left of r, 0 <= r < d
RECURSIVE Digits(_, _, _, _)
Digits(acc, r, d, nd) ==
    IF nd = 0 THEN <<acc, r>>
    ELSE Digits(acc * 10 + (r * 10) \div d, (r * 10) % d, d, nd - 1)

RECURSIVE Pow10(_)
Pow10(nd) == IF nd = 0 THEN 1 ELSE 10 * Pow10(nd - 1)

\* round(x, nd) of a float: the nearest multiple of 10^-nd, a tie to the even
\* one; round(nan, nd) is nan
Round(x, nd) ==
    IF IsNA(x) THEN NA
    ELSE LET q == FloorDiv(x[1], x[2])
             dg == Digits(q, x[1] - q * x[2], x[2], nd)
             lo == dg[1]
             twice == 2 * dg[2]
         IN  IF twice < x[2] THEN Frac(lo, Pow10(nd))
             ELSE IF twice > x[2] THEN Frac(lo + 1, Pow10(nd))
             ELSE IF lo % 2 = 0 THEN Frac(lo, Pow10(nd)) ELSE Frac(lo + 1, Pow10(nd))

----------------------------------------------------------------------------
(* Sequences *)

Range(s) == {s[i] : i \in 1..Len(s)}

\* a finite set of integers as an ascending sequence
RECURSIVE SortedSeq(_)
SortedSeq(S) ==
    IF S = {} THEN <<>>
    ELSE LET m == CHOOSE x \in S : \A y \in S : x <= y
         IN  <<m>> \o SortedSeq(S \ {m})

----------------------------------------------------------------------------
(* Dates: a Timestamp is a number of hours; day 1 is 1 January of EpochYear *)

HoursPerDay == 24

\* the year of config.HISTORICAL_START, the first day of the API window
EpochYear == 2023

\* pd.to_datetime of an API date string "YYYY-MM-DD": midnight of that day
ToDatetime(day) == day * HoursPerDay

\* Series.dt.normalize(): the time of day set to midnight
Normalize(ts) == ts - (ts % HoursPerDay)

IsLeap(y) == (y % 4 = 0 /\ y % 100 # 0) \/ y % 400 = 0

DaysIn(y) == IF IsLeap(y) THEN 366 ELSE 365

RECURSIVE DoyFrom(_, _)
DoyFrom(y, day) == IF day <= DaysIn(y) THEN day ELSE DoyFrom(y + 1, day - DaysIn(y))

\* Series.dt.dayofyear
DayOfYear(ts) == DoyFrom(EpochYear, ts \div HoursPerDay)

----------------------------------------------------------------------------
(* fetch_nwp_history *)

\* NWP_MODELS: the keys in the dict's order
NWP_MODELS == <<"ecmwf_ifs025", "gfs_seamless", "icon_seamless", "gem_global">>

ModelKeys == Range(NWP_MODELS)

\* NWP_MODELS[key]: the display name
ModelName(key) ==
    CASE key = "ecmwf_ifs025" -> "ECMWF IFS"
      [] key = "gfs_seamless" -> "GFS"
      [] key = "icon_seamless" -> "ICON"
      [] key = "gem_global" -> "GEM"

\* model_name.lower().replace(" ", "_")
ColumnOf(key) ==
    CASE ModelName(key) = "ECMWF IFS" -> "ecmwf_ifs"
      [] ModelName(key) = "GFS" -> "gfs"
      [] ModelName(key) = "ICON" -> "icon"
      [] ModelName(key) = "GEM" -> "gem"

\* How one iteration of the loop can end.  "ok": the frame is appended.
\* "request_failed": requests.get, raise_for_status or resp.json()["daily"]
\* raises, before model_cols.append.  "frame_failed": building the frame
\* raises (data["time"] or data["temperature_2m_max"] missing, unparsable
\* dates, lists of different lengths), after model_cols.append.
FetchModes == {"ok", "request_failed", "frame_failed"}

\* pd.DataFrame({"date": pd.to_datetime(data["time"]), col: data[...]})
ModelFrame(answer) ==
    [i \in 1..Len(answer.time) |->
        [date |-> ToDatetime(answer.time[i]), value |-> answer.temperature_2m_max[i]]]

\* the loop over the items of the dict `models`, iterations k .. 4, from the
\* state st
RECURSIVE FetchLoopOver(_, _, _, _)
FetchLoopOver(models, a, k, st) ==
    IF k > Len(models) THEN st
    ELSE LET key == models[k]
             asked == [st EXCEPT !.requested = Append(@, key)]
         IN  CASE a[key].mode = "request_failed" ->
                    FetchLoopOver(models, a, k + 1, asked)
               [] a[key].mode = "frame_failed" ->
                    FetchLoopOver(models, a, k + 1,
                        [asked EXCEPT !.model_cols = Append(@, ColumnOf(key))])
               [] a[key].mode = "ok" ->
                    FetchLoopOver(models, a, k + 1,
                        [asked EXCEPT !.model_cols = Append(@, ColumnOf(key)),
                                      !.frames = Append(@, [col |-> ColumnOf(key),
                                                            rows |-> ModelFrame(a[key])])])

\* the loop over NWP_MODELS.items()
FetchLoop(a, k, st) == FetchLoopOver(NWP_MODELS, a, k, st)

\* the value of column col of a frame at a date, NA where the frame has no such row
FrameValue(frame, date) ==
    LET hits == SelectSeq(frame.rows, LAMBDA r : r.date = date)
    IN  IF hits = <<>> THEN NA ELSE hits[1].value

\* the merge with how="left": only the dates of frames[0] are kept
MergeLeft(frames) ==
    LET dates == [i \in 1..Len(frames[1].rows) |-> frames[1].rows[i].date]
        cols == {frames[i].col : i \in 1..Len(frames)}
        frameOf == [c \in cols |-> frames[CHOOSE j \in 1..Len(frames) : frames[j].col = c]]
    IN  [i \in 1..Len(dates) |->
            [date |-> dates[i],
             values |-> [c \in cols |-> FrameValue(frameOf[c], dates[i])]]]

\* frames[0] merged with each further frame on "date", how="outer": one row per
\* date of the union (dates are unique within a frame); an outer merge sorts the
\* join keys, a single frame is returned as it is
MergeOuter(frames) ==
    LET dates == IF Len(frames) = 1
                 THEN [i \in 1..Len(frames[1].rows) |-> frames[1].rows[i].date]
                 ELSE SortedSeq(UNION {{r.date : r \in Range(frames[i].rows)} : i \in 1..Len(frames)})
        cols == {frames[i].col : i \in 1..Len(frames)}
        frameOf == [c \in cols |-> frames[CHOOSE j \in 1..Len(frames) : frames[j].col = c]]
    IN  [i \in 1..Len(dates) |->
            [date |-> dates[i],
             values |-> [c \in cols |-> FrameValue(frameOf[c], dates[i])]]]

\* RowMean with a missing value counted as 0 and every listed column in the divisor
RowMeanZeroFilled(row, model_cols) ==
    NumDivInt(NumSum([j \in 1..Len(model_cols) |->
                         IF IsNA(row.values[model_cols[j]]) THEN Num(0)
                         ELSE row.values[model_cols[j]]]),
              Len(model_cols))

\* result[model_cols].mean(axis=1): the row's mean over the listed columns
RowMean(row, model_cols) ==
    Mean([j \in 1..Len(model_cols) |-> row.values[model_cols[j]]])

EmptyFrame == [columns |-> <<>>, rows |-> <<>>]

\* fetch_nwp_history() with the dict NWP_MODELS holding its items in the order
\* `models`: what it asked for and how it ended
FetchNwpHistoryOver(models, a) ==
    LET st == FetchLoopOver(models, a, 1,
                            [requested |-> <<>>, model_cols |-> <<>>, frames |-> <<>>])
        merged == MergeOuter(st.frames)
        have == {st.frames[i].col : i \in 1..Len(st.frames)}
    IN  IF st.frames = <<>>
        THEN [requested |-> st.requested, outcome |-> "returned", frame |-> EmptyFrame]
        ELSE IF \E j \in 1..Len(st.model_cols) : st.model_cols[j] \notin have
        THEN \* result[model_cols] raises KeyError
             [requested |-> st.requested, outcome |-> "raised", frame |-> EmptyFrame]
        ELSE [requested |-> st.requested, outcome |-> "returned",
              frame |-> [columns |-> <<"date">> \o st.model_cols \o <<"ensemble_mean">>,
                         rows |-> [i \in 1..Len(merged) |->
                             [date |-> merged[i].date,
                              values |-> merged[i].values,
                              ensemble_mean |-> RowMean(merged[i], st.model_cols)]]]]

\* fetch_nwp_history(): what it asked for and how it ended
FetchNwpHistory(a) == FetchNwpHistoryOver(NWP_MODELS, a)

\* DataFrame.empty
IsEmptyFrame(f) == f.columns = <<>> \/ f.rows = <<>>

----------------------------------------------------------------------------
(* compute_baselines *)

Temps(df) == [i \in 1..Len(df) |-> df[i].temperature_2m_max]

\* AbsDiffs with a term for the first observation, its predecessor taken as 0
AbsDiffsWithFirst(s) ==
    [i \in 1..Len(s) |-> IF i = 1 THEN NumAbs(s[1]) ELSE NumAbs(NumSub(s[i], s[i - 1]))]

\* Series.diff().abs() of a series without missing values, the first (NaN) entry dropped
AbsDiffs(s) == [i \in 1..(IF Len(s) = 0 THEN 0 ELSE Len(s) - 1) |-> NumAbs(NumSub(s[i + 1], s[i]))]

\* DoyMean with the row's own value left out of the mean of its group
DoyMeanLeaveOneOut(df) ==
    [i \in 1..Len(df) |->
        Mean([j \in 1..Len(df) |->
                IF j # i /\ DayOfYear(df[j].date) = DayOfYear(df[i].date)
                THEN df[j].temperature_2m_max ELSE NA])]

\* df.groupby("doy")[col].transform("mean"): per row, the mean of its day-of-year group
DoyMean(df) ==
    [i \in 1..Len(df) |->
        Mean([j \in 1..Len(df) |->
                IF DayOfYear(df[j].date) = DayOfYear(df[i].date)
                THEN df[j].temperature_2m_max ELSE NA])]

\* (df["temperature_2m_max"] - doy_mean).abs(): per row, NaN where the value is
ClimatologyErrors(df) ==
    LET doy_mean == DoyMean(df)
    IN  [i \in 1..Len(df) |-> NumAbs(NumSub(df[i].temperature_2m_max, doy_mean[i]))]

ComputeBaselines(df) ==
    LET temp == DropNA(Temps(df))
        persistence_mae == Mean(AbsDiffs(temp))
        climatology_mae == Mean(ClimatologyErrors(df))
    IN  [persistence_mae |-> Round(persistence_mae, 2),
         climatology_mae |-> Round(climatology_mae, 2)]

\* a call of compute_baselines: how it ended, the per-row climatology errors it
\* averaged, and the dict it returned
NoBaselines == [outcome |-> "none", errors |-> <<>>, result |-> <<>>]

BaselinesCall(df) ==
    [outcome |-> "returned", errors |-> ClimatologyErrors(df), result |-> ComputeBaselines(df)]

----------------------------------------------------------------------------
(* make_forecast: the Prophet model is the library's, known by its contract *)

\* Prophet.fit raises ValueError("Dataframe has less than 2 non-NaN rows")
MinFitRows == 2

\* the library at rest: the fit converges, the prediction is a level of 12 degrees
ProphetWorks == [converges |-> TRUE, yhat |-> Num(12)]

\* daily_df[["date", metric_col]] renamed to ds, y, the rows without y dropped
ProphetDf(df) ==
    LET kept == SelectSeq(df, LAMBDA r : ~IsNA(r.temperature_2m_max))
    IN  [i \in 1..Len(kept) |-> [ds |-> kept[i].date, y |-> kept[i].temperature_2m_max]]

\* Prophet.history_dates: the dates of the training frame, unique and ascending
HistoryDates(prophet_df) == SortedSeq({r.ds : r \in Range(prophet_df)})

\* MakeFutureDataframe with the range of new dates starting on the last
\* history date instead of after it
MakeFutureDataframeFromLast(history_dates, periods) ==
    LET last_date == history_dates[Len(history_dates)]
    IN  history_dates \o [k \in 1..periods |-> last_date + (k - 1) * HoursPerDay]

\* model.make_future_dataframe(periods): the history dates followed by the
\* `periods` days after the last of them (freq "D", include_history=True)
MakeFutureDataframe(history_dates, periods) ==
    LET last_date == history_dates[Len(history_dates)]
    IN  history_dates \o [k \in 1..periods |-> last_date + k * HoursPerDay]

\* model.predict(future)[["ds", "yhat", ...]]: one row per date of future, in
\* its order; the estimate is the library's
Predict(future, p) == [i \in 1..Len(future) |-> [ds |-> future[i], yhat |-> p.yhat]]

NoForecast == [outcome |-> "none", periods |-> 0, rows |-> <<>>]

\* make_forecast(daily_df, "temperature_2m_max", periods): nothing is caught, a
\* failure of fit or predict leaves the function as the exception
MakeForecast(df, periods, p) ==
    LET prophet_df == ProphetDf(df)
    IN  IF Len(prophet_df) < MinFitRows \/ ~p.converges
        THEN [outcome |-> "raised", periods |-> periods, rows |-> <<>>]
        ELSE [outcome |-> "returned", periods |-> periods,
              rows |-> Predict(MakeFutureDataframe(HistoryDates(prophet_df), periods), p)]

----------------------------------------------------------------------------
(* evaluate_all_models *)

\* the rolling window and its min_periods in error.rolling(14, min_periods=7)
RollingWindow == 14

MinPeriods == 7

\* the rows of nwp with the date of a row of actual, with its observation
Matches(a, nwpRows) ==
    LET hits == SelectSeq(nwpRows, LAMBDA r : r.date = a.date)
    IN  [j \in 1..Len(hits) |->
            [date |-> a.date,
             temperature_2m_max |-> a.temperature_2m_max,
             values |-> hits[j].values,
             ensemble_mean |-> hits[j].ensemble_mean]]

RECURSIVE Flatten(_)
Flatten(seqs) == IF seqs = <<>> THEN <<>> ELSE Head(seqs) \o Flatten(Tail(seqs))

\* actual.merge(nwp, on="date", how="inner"): for each row of actual, in order,
\* the rows of nwp with the same date
MergeInner(actual, nwpRows) ==
    Flatten([i \in 1..Len(actual) |-> Matches(actual[i], nwpRows)])

\* a row put into rows that are ascending by date, after the rows of its date
InsertByDate(rows, row) ==
    LET before == SelectSeq(rows, LAMBDA r : r.date <= row.date)
        after == SelectSeq(rows, LAMBDA r : r.date > row.date)
    IN  before \o <<row>> \o after

\* DataFrame.sort_values("date").reset_index(drop=True): ascending, rows of equal
\* date in their old order
RECURSIVE SortRows(_, _)
SortRows(rows, k) == IF k = 0 THEN <<>> ELSE InsertByDate(SortRows(rows, k - 1), rows[k])

SortByDate(rows) == SortRows(rows, Len(rows))

\* Series.rolling(window, min_periods).mean(): at position i the mean of the
\* non-missing values among the last `window` positions, if there are min_periods
RollingMean(s, window, min_periods) ==
    [i \in 1..Len(s) |->
        LET lo == IF i - window + 1 < 1 THEN 1 ELSE i - window + 1
            w == DropNA(SubSeq(s, lo, i))
        IN  IF Len(w) >= min_periods THEN Mean(w) ELSE NA]

\* Series.shift(1)
Shift(s) == [i \in 1..Len(s) |-> IF i = 1 THEN NA ELSE s[i - 1]]

\* RollingBias without the shift: the window ends at the date itself
RollingBiasUnshifted(error) == RollingMean(error, RollingWindow, MinPeriods)

\* RollingBias without min_periods=7: one valid error in the window is enough
RollingBiasNoMinPeriods(error) == Shift(RollingMean(error, RollingWindow, 1))

\* error.rolling(14, min_periods=7).mean().shift(1)
RollingBias(error) == Shift(RollingMean(error, RollingWindow, MinPeriods))

\* the model_maes dict: a column is scored if a merged row has a value for it
ModelMaes(columns, merged) ==
    LET cols == {c \in Range(columns) : c \notin {"date", "ensemble_mean"}}
        valid(c) == SelectSeq(merged, LAMBDA r : ~IsNA(r.values[c]))
        scored == {c \in cols : Len(valid(c)) > 0}
    IN  [c \in scored |->
            Round(Mean([i \in 1..Len(valid(c)) |->
                NumAbs(NumSub(valid(c)[i].values[c], valid(c)[i].temperature_2m_max))]), 3)]

NoLocals ==
    [merged |-> <<>>, error |-> <<>>, rolling_bias |-> <<>>, corrected |-> <<>>,
     valid_corrected |-> <<>>]

\* ProphetMae to the whole degree
ProphetMaeWhole == <<4, 1>>

\* "prophet_mae": 3.99, the literal of the report
ProphetMae == <<399, 100>>

\* actual: daily_df[["date", "temperature_2m_max"]] with the dates normalized
Actual(df) ==
    [i \in 1..Len(df) |->
        [date |-> Normalize(df[i].date), temperature_2m_max |-> df[i].temperature_2m_max]]

\* actual.merge(nwp, on="date", how="inner").dropna(subset=["ensemble_mean"])
AlignedRows(df, frame) ==
    SelectSeq(MergeInner(Actual(df), frame.rows), LAMBDA r : ~IsNA(r.ensemble_mean))

\* mean of |ensemble_mean - temperature_2m_max| over the rows
EnsembleRawMae(rows) ==
    Mean([i \in 1..Len(rows) |->
             NumAbs(NumSub(rows[i].ensemble_mean, rows[i].temperature_2m_max))])

\* ErrorSeries with the operands swapped
ErrorSeriesReversed(merged) ==
    [i \in 1..Len(merged) |-> NumSub(merged[i].temperature_2m_max, merged[i].ensemble_mean)]

\* error = merged["ensemble_mean"] - merged["temperature_2m_max"]
ErrorSeries(merged) ==
    [i \in 1..Len(merged) |-> NumSub(merged[i].ensemble_mean, merged[i].temperature_2m_max)]

\* Corrected with an undefined rolling bias taken as no correction
CorrectedZeroFilled(merged, rolling_bias) ==
    [i \in 1..Len(merged) |->
        NumSub(merged[i].ensemble_mean, IF IsNA(rolling_bias[i]) THEN Num(0) ELSE rolling_bias[i])]

\* corrected = merged["ensemble_mean"] - rolling_bias
Corrected(merged, rolling_bias) ==
    [i \in 1..Len(merged) |-> NumSub(merged[i].ensemble_mean, rolling_bias[i])]

\* merged.dropna(subset=["temperature_2m_max"]) with the column "corrected",
\* then dropna(subset=["corrected"])
ValidCorrected(merged, corrected) ==
    SelectSeq([i \in 1..Len(merged) |->
                  [date |-> merged[i].date,
                   temperature_2m_max |-> merged[i].temperature_2m_max,
                   corrected |-> corrected[i]]],
              LAMBDA r : ~IsNA(r.temperature_2m_max) /\ ~IsNA(r.corrected))

\* mean of |corrected - temperature_2m_max| over valid_corrected
EnsembleCorrectedMae(valid_corrected) ==
    Mean([i \in 1..Len(valid_corrected) |->
             NumAbs(NumSub(valid_corrected[i].corrected,
                           valid_corrected[i].temperature_2m_max))])

\* evaluate_all_models from the bias correction on: merged is the aligned rows
\* sorted by date
ScoreMerged(df, fetched, aligned, merged) ==
    LET error == ErrorSeries(merged)
        rolling_bias == RollingBias(error)
        corrected == Corrected(merged, rolling_bias)
        valid_corrected == ValidCorrected(merged, corrected)
        baselines == ComputeBaselines(df)
    IN  [requested |-> fetched.requested, outcome |-> "returned", nwp |-> fetched.frame,
         ev |-> [merged |-> [i \in 1..Len(merged) |->
                               [date |-> merged[i].date,
                                temperature_2m_max |-> merged[i].temperature_2m_max,
                                ensemble_mean |-> merged[i].ensemble_mean]],
                 error |-> error,
                 rolling_bias |-> rolling_bias,
                 corrected |-> corrected,
                 valid_corrected |-> valid_corrected],
         report |-> [ensemble_corrected_mae |-> Round(EnsembleCorrectedMae(valid_corrected), 2),
                     ensemble_raw_mae |-> Round(EnsembleRawMae(aligned), 2),
                     model_maes |-> ModelMaes(fetched.frame.columns, aligned),
                     nwp_bias |-> Round(Mean(error), 2),
                     persistence_mae |-> baselines.persistence_mae,
                     climatology_mae |-> baselines.climatology_mae,
                     prophet_mae |-> ProphetMae,
                     n_days |-> Len(valid_corrected)]]

\* evaluate_all_models from the inner merge on
ScoreAligned(df, fetched, aligned) == ScoreMerged(df, fetched, aligned, SortByDate(aligned))

\* ScoreFetched without the nwp.empty check
ScoreFetchedUnguarded(df, fetched) ==
    IF fetched.outcome = "raised"
    THEN [requested |-> fetched.requested, outcome |-> "raised", nwp |-> EmptyFrame,
          ev |-> NoLocals, report |-> <<>>]
    ELSE ScoreAligned(df, fetched, AlignedRows(df, fetched.frame))

\* evaluate_all_models once fetch_nwp_history() has ended
ScoreFetched(df, fetched) ==
    IF fetched.outcome = "raised"
    THEN [requested |-> fetched.requested, outcome |-> "raised", nwp |-> EmptyFrame,
          ev |-> NoLocals, report |-> <<>>]
    ELSE IF IsEmptyFrame(fetched.frame)
    THEN [requested |-> fetched.requested, outcome |-> "returned", nwp |-> fetched.frame,
          ev |-> NoLocals, report |-> <<>>]
    ELSE ScoreAligned(df, fetched, AlignedRows(df, fetched.frame))

\* evaluate_all_models(daily_df) against the API answers a
EvaluateAllModels(df, a) == ScoreFetched(df, FetchNwpHistory(a))

----------------------------------------------------------------------------
(* render_forecast: the forecast tab of the dashboard *)

\* an optional frame: None, or a DataFrame with its rows
None == [some |-> FALSE, rows |-> <<>>]

Some(rows) == [some |-> TRUE, rows |-> rows]

\* the periods render_forecast asks make_forecast for
ForecastPeriods == 30

\* the days of the "Next 7 Days" summary
NextDays == 7

\* forecast_days of the ensemble and of the single-model request
ForecastDays == 16

\* the key of the call _cached_forecast(df_hash, ...): f"{len(daily_df)}_{daily_df['date'].iloc[-1]}"
DfHash(df) == <<Len(df), df[Len(df)].date>>

\* Series.max() of a non-empty column of dates
MaxDate(dates) == CHOOSE d \in Range(dates) : \A e \in Range(dates) : e <= d

\* Series.head(n)
HeadRows(rows, n) == SubSeq(rows, 1, IF Len(rows) < n THEN Len(rows) ELSE n)

\* RowsAfter with the row dated on the last of dates kept
RowsFrom(rows, dates) ==
    IF dates = <<>> THEN <<>>
    ELSE SelectSeq(rows, LAMBDA r : r.ds >= MaxDate(dates))

\* frame[frame["ds"] > dates.max()]: the rows dated after the last of dates; the
\* max of an empty column is NaT, and no date compares greater than NaT
RowsAfter(rows, dates) ==
    IF dates = <<>> THEN <<>>
    ELSE SelectSeq(rows, LAMBDA r : r.ds > MaxDate(dates))

Dates(rows) == [i \in 1..Len(rows) |-> rows[i].date]

\* the cache of _cached_forecast with no entry
EmptyCache == [some |-> FALSE, rows |-> <<>>, df_hash |-> <<>>]

\* what a render leaves on the page: nothing yet.  make_forecast: whether the
\* render called it ("not called", "returned", "raised"); df_hash: its local of
\* that name; forecast_of: the df_hash of the frame the forecast it shows was
\* computed from; last_date, ensemble_end: its locals of those names as <<d>>,
\* <<>> when unset or NaT
NoRender ==
    [outcome |-> "none", shown |-> "nothing", make_forecast |-> "not called",
     df_hash |-> <<>>, forecast_of |-> <<>>, last_date |-> <<>>, ensemble_end |-> <<>>,
     prophet_future |-> <<>>, prophet_extension |-> <<>>, traces |-> <<>>,
     next_7_from |-> "none", next_7_dates |-> <<>>, next_7_temps |-> <<>>]

\* _cached_forecast(df_hash, "temperature_2m_max", 30) under st.cache_data: the
\* first parameter is named _df_hash, and st.cache_data leaves a parameter whose
\* name starts with an underscore out of the cache key, so the key is
\* (metric_col, periods) and an entry answers every later call until it expires.
\* A call that raises stores nothing.
CachedForecast(df, cache, p) ==
    IF cache.some
    THEN [result |-> [outcome |-> "returned", periods |-> ForecastPeriods, rows |-> cache.rows],
          hit |-> TRUE, cache |-> cache]
    ELSE LET made == MakeForecast(df, ForecastPeriods, p)
         IN  [result |-> made, hit |-> FALSE,
              cache |-> IF made.outcome = "returned"
                        THEN [some |-> TRUE, rows |-> made.rows, df_hash |-> DfHash(df)]
                        ELSE cache]

\* the traces of the chart and the rows of the Prophet extension
BuildChart(prophet_future, ensemble, api_fc) ==
    LET source == IF ensemble.some /\ Len(ensemble.rows) > 0 THEN "ensemble"
               ELSE IF api_fc.some THEN "api" ELSE "none"
        prophet_extension ==
            CASE source = "ensemble" -> RowsAfter(prophet_future, Dates(ensemble.rows))
              [] source = "api" -> RowsAfter(prophet_future, Dates(api_fc.rows))
              [] source = "none" -> prophet_future
        nwp_dates == CASE source = "ensemble" -> Dates(ensemble.rows)
                       [] source = "api" -> Dates(api_fc.rows)
                       [] source = "none" -> <<>>
    IN  [prophet_extension |-> prophet_extension,
         ensemble_end |-> IF nwp_dates = <<>> THEN <<>> ELSE <<MaxDate(nwp_dates)>>,
         traces |-> <<"Actual">>
                    \o (CASE source = "ensemble" ->
                                <<"Ensemble range (p10-p90)", "4-Model Ensemble (16-day)">>
                           [] source = "api" -> <<"Weather Model (16-day)">>
                           [] source = "none" -> <<>>)
                    \o (IF Len(prophet_extension) > 0
                        THEN <<"Seasonal uncertainty", "Seasonal extension (Prophet)">>
                        ELSE <<>>)]

\* the "Next 7 Days" summary: the ensemble, else the API forecast, else Prophet
NextSeven(prophet_future, ensemble, api_fc) ==
    IF ensemble.some /\ Len(ensemble.rows) >= NextDays
    THEN LET h == HeadRows(ensemble.rows, NextDays)
         IN  [from |-> "ensemble", dates |-> Dates(h), temps |-> [i \in 1..Len(h) |-> h[i].mean]]
    ELSE IF api_fc.some /\ Len(api_fc.rows) >= NextDays
    THEN LET h == HeadRows(api_fc.rows, NextDays)
         IN  [from |-> "api", dates |-> Dates(h), temps |-> [i \in 1..Len(h) |-> h[i].temp]]
    ELSE LET h == HeadRows(prophet_future, NextDays)
         IN  [from |-> "prophet", dates |-> [i \in 1..Len(h) |-> h[i].ds],
              temps |-> [i \in 1..Len(h) |-> h[i].yhat]]

\* the tab before any render: no source answers, nothing cached
NoTab == [has_historical |-> TRUE, ensemble |-> None, api_fc |-> None,
          cache |-> EmptyCache, render |-> NoRender]

\* RenderForecast with the failure of the forecast swallowed: the chart and the
\* summary are drawn from the other sources, with no seasonal row
RenderForecastSwallowing(df, has_historical, ensemble, api_fc, cache, p) ==
    IF ~has_historical
    THEN [render |-> [NoRender EXCEPT !.outcome = "returned", !.shown = "info"], cache |-> cache]
    ELSE LET cached == CachedForecast(df, cache, p)
             prophet_future == RowsAfter(cached.result.rows, Dates(df))
             chart == BuildChart(prophet_future, ensemble, api_fc)
             next_7 == NextSeven(prophet_future, ensemble, api_fc)
         IN  [render |-> [outcome |-> "returned", shown |-> "chart",
                          make_forecast |-> IF cached.hit THEN "not called"
                                            ELSE cached.result.outcome,
                          df_hash |-> DfHash(df),
                          forecast_of |-> cached.cache.df_hash,
                          last_date |-> <<MaxDate(Dates(df))>>,
                          ensemble_end |-> chart.ensemble_end,
                          prophet_future |-> prophet_future,
                          prophet_extension |-> chart.prophet_extension,
                          traces |-> chart.traces,
                          next_7_from |-> next_7.from,
                          next_7_dates |-> next_7.dates,
                          next_7_temps |-> next_7.temps],
              cache |-> cached.cache]

\* render_forecast(daily_df, has_historical): the render and the cache it leaves
RenderForecast(df, has_historical, ensemble, api_fc, cache, p) ==
    IF ~has_historical
    THEN [render |-> [NoRender EXCEPT !.outcome = "returned", !.shown = "info"], cache |-> cache]
    ELSE LET cached == CachedForecast(df, cache, p)
             prophet_future == RowsAfter(cached.result.rows, Dates(df))
             chart == BuildChart(prophet_future, ensemble, api_fc)
             next_7 == NextSeven(prophet_future, ensemble, api_fc)
         IN  IF cached.result.outcome = "raised"
             THEN \* st.error(f"Forecast failed: {e}"); return
                  [render |-> [NoRender EXCEPT !.outcome = "returned", !.shown = "error",
                                               !.make_forecast = "raised",
                                               !.df_hash = DfHash(df)],
                   cache |-> cached.cache]
             ELSE [render |-> [outcome |-> "returned", shown |-> "chart",
                               make_forecast |-> IF cached.hit THEN "not called" ELSE "returned",
                               df_hash |-> DfHash(df),
                               forecast_of |-> cached.cache.df_hash,
                               last_date |-> <<MaxDate(Dates(df))>>,
                               ensemble_end |-> chart.ensemble_end,
                               prophet_future |-> prophet_future,
                               prophet_extension |-> chart.prophet_extension,
                               traces |-> chart.traces,
                               next_7_from |-> next_7.from,
                               next_7_dates |-> next_7.dates,
                               next_7_temps |-> next_7.temps],
                   cache |-> cached.cache]

----------------------------------------------------------------------------
(* The pipeline run: main of src/pipeline/run.py and save of load.py *)

\* the Parquet files of save, in the order it writes them
ParquetFiles == <<"daily/weather.parquet", "hourly/weather.parquet",
                  "sun/times.parquet", "aqi/quality.parquet">>

\* How a run can go wrong.  An extract_* of the main data fails with the
\* RuntimeError it wraps the request in, or with another error raised after the
\* request (reading the response); a supplementary extract raises or not; a
\* frame conforms to its schema or not; transform raises or not; to_parquet
\* fails on one of the files or on none.
ExtractFaults == {"ok", "RuntimeError", "other"}

Faults ==
    [extract_historical : ExtractFaults, extract_forecast : ExtractFaults,
     extract_sun_times : {"ok", "raises"}, extract_air_quality : {"ok", "raises"},
     daily_conforms : BOOLEAN, hourly_conforms : BOOLEAN,
     transform : {"ok", "raises"},
     to_parquet : {"ok"} \cup Range(ParquetFiles)]

\* main before its first stage.  ended: "no", "completed", "sys.exit(1)" or
\* "uncaught" (the exception leaves main); log: what main printed about failures
StartOfRun(faults) ==
    [pc |-> "extract", faults |-> faults,
     daily_df |-> "none", hourly_df |-> "none", sun_df |-> "None", aqi_df |-> "None",
     validated |-> {}, save_called |-> FALSE, files |-> {}, log |-> <<>>, ended |-> "no"]

NoFaults ==
    [extract_historical |-> "ok", extract_forecast |-> "ok",
     extract_sun_times |-> "ok", extract_air_quality |-> "ok",
     daily_conforms |-> TRUE, hourly_conforms |-> TRUE,
     transform |-> "ok", to_parquet |-> "ok"]

NoRun == [StartOfRun(NoFaults) EXCEPT !.pc = "idle"]

\* print(f"  ... FAILED: {e}"); sys.exit(1)
ExitOne(r, message) ==
    [r EXCEPT !.pc = "exited", !.log = Append(@, message), !.ended = "sys.exit(1)"]

\* an exception no handler of main catches
Uncaught(r) == [r EXCEPT !.pc = "exited", !.ended = "uncaught"]

\* [1/4]: try the two extracts, except RuntimeError
ExtractStage(r) ==
    LET first == r.faults.extract_historical
        second == r.faults.extract_forecast
        failed == IF first # "ok" THEN first ELSE second
    IN  CASE failed = "RuntimeError" -> ExitOne(r, "EXTRACTION FAILED")
          [] failed = "other" -> Uncaught(r)
          [] failed = "ok" ->
                [r EXCEPT !.pc = "supplementary", !.daily_df = "raw", !.hourly_df = "raw"]

\* the supplementary data, each in its own try / except Exception
SupplementaryStage(r) ==
    LET sun_ok == r.faults.extract_sun_times = "ok"
        aqi_ok == r.faults.extract_air_quality = "ok"
    IN  [r EXCEPT !.pc = "validate",
                  !.sun_df = IF sun_ok THEN "frame" ELSE "None",
                  !.aqi_df = IF aqi_ok THEN "frame" ELSE "None",
                  !.log = @ \o (IF sun_ok THEN <<>> ELSE <<"Sun times: SKIPPED">>)
                            \o (IF aqi_ok THEN <<>> ELSE <<"Air quality: SKIPPED">>)]

\* ValidateStage with the hourly frame passed on unvalidated
ValidateStageDailyOnly(r) ==
    IF ~r.faults.daily_conforms
    THEN ExitOne(r, "VALIDATION FAILED")
    ELSE [r EXCEPT !.pc = "transform", !.daily_df = "validated", !.validated = {"daily"}]

\* [2/4]: validate daily, then hourly, except Exception
ValidateStage(r) ==
    IF ~r.faults.daily_conforms
    THEN ExitOne(r, "VALIDATION FAILED")
    ELSE IF ~r.faults.hourly_conforms
    THEN ExitOne([r EXCEPT !.daily_df = "validated", !.validated = {"daily"}],
                 "VALIDATION FAILED")
    ELSE [r EXCEPT !.pc = "transform", !.daily_df = "validated", !.hourly_df = "validated",
                   !.validated = {"daily", "hourly"}]

\* [3/4]: transform, outside any try
TransformStage(r) ==
    IF r.faults.transform = "raises" THEN Uncaught(r)
    ELSE [r EXCEPT !.pc = "load", !.daily_df = "transformed", !.hourly_df = "transformed"]

\* save(daily_df, hourly_df, data_path, sun_df, aqi_df): the files it writes, in
\* order, the supplementary ones only for a frame that is not None, up to the
\* file to_parquet fails on
RECURSIVE WriteFiles(_, _, _)
WriteFiles(paths, fails_on, written) ==
    IF paths = <<>> THEN [raised |-> FALSE, files |-> written]
    ELSE IF Head(paths) = fails_on THEN [raised |-> TRUE, files |-> written]
    ELSE WriteFiles(Tail(paths), fails_on, written \cup {Head(paths)})

\* the same with the supplementary files written whatever the frames are
SaveAlways(sun_df, aqi_df, fails_on) == WriteFiles(ParquetFiles, fails_on, {})

Save(sun_df, aqi_df, fails_on) ==
    WriteFiles(SelectSeq(ParquetFiles,
                         LAMBDA path : /\ (path = "sun/times.parquet" => sun_df # "None")
                                       /\ (path = "aqi/quality.parquet" => aqi_df # "None")),
               fails_on, {})

\* [4/4]: save, outside any try
LoadStage(r) ==
    LET saved == Save(r.sun_df, r.aqi_df, r.faults.to_parquet)
        after == [r EXCEPT !.save_called = TRUE, !.files = saved.files]
    IN  IF saved.raised THEN Uncaught(after)
        ELSE [after EXCEPT !.pc = "done", !.ended = "completed"]

----------------------------------------------------------------------------
(* The caller's frame.  A DataFrame is an object: the functions are handed a *)
(* reference to the caller's daily_df.  The heap is the sequence of the      *)
(* objects, the caller's frame first.                                        *)

\* a new object that holds `frame`: the heap with it, and the reference to it
Allocate(heap, frame) == [heap |-> Append(heap, frame), ref |-> Len(heap) + 1]

\* frame[[columns]]: a new frame with these columns
SelectColumns(heap, ref, columns) ==
    Allocate(heap, [i \in 1..Len(heap[ref]) |-> [c \in columns |-> heap[ref][i][c]]])

\* frame.copy()
Copy(heap, ref) == Allocate(heap, heap[ref])

\* frame.rename(columns={"date": "ds", metric_col: "y"}): a new frame
Rename(heap, ref) ==
    Allocate(heap, [i \in 1..Len(heap[ref]) |->
                       [ds |-> heap[ref][i].date, y |-> heap[ref][i].temperature_2m_max]])

\* frame.dropna(subset=[column]): a new frame
DropNaRows(heap, ref, column) ==
    Allocate(heap, SelectSeq(heap[ref], LAMBDA r : ~IsNA(r[column])))

\* frame[column] = values: the object itself gets the column
SetItem(heap, ref, column, values) ==
    LET frame == heap[ref]
    IN  [heap EXCEPT ![ref] =
            [i \in 1..Len(frame) |->
                [c \in DOMAIN frame[i] \cup {column} |->
                    IF c = column THEN values[i] ELSE frame[i][c]]]]

\* compute_baselines with the day of year written into the frame it was handed
BaselinesEffectInPlace(heap, daily) ==
    SetItem(heap, daily, "doy", [i \in 1..Len(heap[daily]) |-> DayOfYear(heap[daily][i].date)])

\* compute_baselines(daily_df) on the heap: temp is a new Series, df a copy of
\* two columns, which gets the column doy
BaselinesEffect(heap, daily) ==
    LET selected == SelectColumns(heap, daily, {"date", "temperature_2m_max"})
        df == Copy(selected.heap, selected.ref)
    IN  SetItem(df.heap, df.ref, "doy",
                [i \in 1..Len(df.heap[df.ref]) |-> DayOfYear(df.heap[df.ref][i].date)])

\* make_forecast with the rows of missing values dropped from the frame it was
\* handed
ForecastEffectInPlace(heap, daily) ==
    [heap EXCEPT ![daily] = SelectSeq(@, LAMBDA r : ~IsNA(r.temperature_2m_max))]

\* make_forecast(daily_df, ...) on the heap: prophet_df is a new frame, renamed,
\* then bound to a new frame without the missing values; Prophet is handed
\* prophet_df
ForecastEffect(heap, daily) ==
    LET selected == SelectColumns(heap, daily, {"date", "temperature_2m_max"})
        renamed == Rename(selected.heap, selected.ref)
        prophet_df == DropNaRows(renamed.heap, renamed.ref, "y")
    IN  prophet_df.heap

\* evaluate_all_models with the dates normalized in the frame it was handed
EvaluationEffectInPlace(heap, daily, fetched) ==
    LET dated == SetItem(heap, daily, "date",
                         [i \in 1..Len(heap[daily]) |-> Normalize(heap[daily][i].date)])
    IN  IF fetched.outcome = "raised" \/ IsEmptyFrame(fetched.frame)
        THEN dated
        ELSE BaselinesEffect(dated, daily)

\* evaluate_all_models(daily_df) on the heap: actual is a copy of two columns
\* whose dates are normalized; merged, valid_corrected and the frames derived
\* from them are new objects; compute_baselines is handed daily_df
EvaluationEffect(heap, daily, fetched) ==
    LET selected == SelectColumns(heap, daily, {"date", "temperature_2m_max"})
        actual == Copy(selected.heap, selected.ref)
        dated == SetItem(actual.heap, actual.ref, "date",
                         [i \in 1..Len(actual.heap[actual.ref]) |->
                             Normalize(actual.heap[actual.ref][i].date)])
    IN  IF fetched.outcome = "raised" \/ IsEmptyFrame(fetched.frame)
        THEN dated
        ELSE BaselinesEffect(dated, daily)

\* the caller's frame after a call that was handed it
CallersFrame(heap) == Head(heap)

----------------------------------------------------------------------------
(* validate: the schemas of src/pipeline/quality.py *)

NumLe(x, y) == x[1] * y[2] <= y[1] * x[2]

NumLt(x, y) == x[1] * y[2] < y[1] * x[2]

\* pa.Check.in_range(min, max), pa.Check.ge(min), pa.Check.gt(min); no check
InRange(min, max) == [kind |-> "in_range", min |-> min, max |-> max]

Ge(min) == [kind |-> "ge", min |-> min, max |-> min]

Gt(min) == [kind |-> "gt", min |-> min, max |-> min]

NoCheck == [kind |-> "none", min |-> 0, max |-> 0]

Column(name, check) == [name |-> name, check |-> check]

DailyWeatherSchema ==
    <<Column("date", NoCheck),
      Column("temperature_2m_max", InRange(-60, 60)),
      Column("temperature_2m_min", InRange(-60, 60)),
      Column("apparent_temperature_max", InRange(-80, 70)),
      Column("apparent_temperature_min", InRange(-80, 70)),
      Column("precipitation_sum", Ge(0)),
      Column("wind_speed_10m_max", Ge(0)),
      Column("relative_humidity_2m_mean", InRange(0, 100)),
      Column("weather_code", InRange(0, 99)),
      Column("daylight_duration", Gt(0))>>

HourlyWeatherSchema ==
    <<Column("timestamp", NoCheck),
      Column("temperature_2m", InRange(-60, 60)),
      Column("apparent_temperature", InRange(-80, 70)),
      Column("relative_humidity_2m", InRange(0, 100)),
      Column("wind_speed_10m", Ge(0)),
      Column("wind_gusts_10m", Ge(0)),
      Column("precipitation_probability", InRange(0, 100)),
      Column("precipitation", Ge(0)),
      Column("uv_index", Ge(0)),
      Column("weather_code", InRange(0, 99)),
      Column("visibility", Gt(0))>>

\* the check of a column with its bounds excluded
PassesExclusive(check, v) ==
    CASE check.kind = "in_range" -> NumLt(Num(check.min), v) /\ NumLt(v, Num(check.max))
      [] check.kind = "ge" -> NumLt(Num(check.min), v)
      [] check.kind = "gt" -> NumLt(Num(check.min), v)
      [] check.kind = "none" -> TRUE

\* the check of a column on a value that is not null; in_range includes both
\* of its bounds
Passes(check, v) ==
    CASE check.kind = "in_range" -> NumLe(Num(check.min), v) /\ NumLe(v, Num(check.max))
      [] check.kind = "ge" -> NumLe(Num(check.min), v)
      [] check.kind = "gt" -> NumLt(Num(check.min), v)
      [] check.kind = "none" -> TRUE

\* the cells schema.validate(df, lazy=True) collects: a null (no column is
\* nullable), or a value that fails its column's check
FailureCases(df, schema) ==
    {c \in (1..Len(df)) \X (1..Len(schema)) :
        LET v == df[c[1]][schema[c[2]].name]
        IN  IsNA(v) \/ ~Passes(schema[c[2]].check, v)}

NoValidation == [schema |-> <<>>, df |-> <<>>, outcome |-> "none", result |-> <<>>,
                 failure_cases |-> {}]

\* validate(df, schema): the frame, coerced to the schema's types (float64
\* keeps every value), or SchemaErrors with the failure cases
ValidateFrame(df, schema) ==
    LET failure_cases == FailureCases(df, schema)
    IN  [schema |-> schema, df |-> df,
         outcome |-> IF failure_cases = {} THEN "returned" ELSE "raised",
         result |-> IF failure_cases = {} THEN df ELSE <<>>,
         failure_cases |-> failure_cases]

----------------------------------------------------------------------------
(* The transformations of src/pipeline/transform.py *)

\* x > t on a float column: a comparison with NaN is False
Greater(x, t) == ~IsNA(x) /\ NumLt(Num(t), x)

\* COMFORT_TRANSLATIONS: scientific category -> (everyday label, advice, colour)
COMFORT_TRANSLATIONS ==
    ("Extreme heat stress" :> <<"Dangerously hot", "Stay indoors. Hydrate constantly.", "red">>)
    @@ ("Very strong heat stress" :> <<"Very hot", "Limit time outside. Lots of water.", "orange">>)
    @@ ("Strong heat stress" :> <<"Hot", "Light clothes, sunscreen, water.", "orange">>)
    @@ ("Moderate heat stress" :> <<"Warm", "Comfortable with light clothing.", "yellow">>)
    @@ ("No thermal stress" :> <<"Perfect", "Enjoy the outdoors!", "green">>)
    @@ ("Slight cold stress" :> <<"Cool", "Grab a light jacket.", "blue">>)
    @@ ("Moderate cold stress" :> <<"Cold", "Wear layers and a warm jacket.", "blue">>)
    @@ ("Strong cold stress" :> <<"Very cold", "Bundle up. Limit time outside.", "purple">>)
    @@ ("Very strong cold stress" :> <<"Bitter cold", "Heavy winter gear essential.", "purple">>)
    @@ ("Extreme cold stress" :> <<"Dangerously cold", "Stay indoors if possible.", "red">>)

\* _get_stress_category with the labels of two branches exchanged
GetStressCategorySwapped(apparent_temp_c) ==
    IF Greater(apparent_temp_c, 46) THEN "Extreme heat stress"
    ELSE IF Greater(apparent_temp_c, 38) THEN "Very strong heat stress"
    ELSE IF Greater(apparent_temp_c, 32) THEN "Moderate heat stress"
    ELSE IF Greater(apparent_temp_c, 26) THEN "Strong heat stress"
    ELSE IF Greater(apparent_temp_c, 9) THEN "No thermal stress"
    ELSE IF Greater(apparent_temp_c, 0) THEN "Slight cold stress"
    ELSE IF Greater(apparent_temp_c, -13) THEN "Moderate cold stress"
    ELSE IF Greater(apparent_temp_c, -27) THEN "Strong cold stress"
    ELSE IF Greater(apparent_temp_c, -40) THEN "Very strong cold stress"
    ELSE "Extreme cold stress"

\* _get_stress_category(apparent_temp_c)
GetStressCategory(apparent_temp_c) ==
    IF Greater(apparent_temp_c, 46) THEN "Extreme heat stress"
    ELSE IF Greater(apparent_temp_c, 38) THEN "Very strong heat stress"
    ELSE IF Greater(apparent_temp_c, 32) THEN "Strong heat stress"
    ELSE IF Greater(apparent_temp_c, 26) THEN "Moderate heat stress"
    ELSE IF Greater(apparent_temp_c, 9) THEN "No thermal stress"
    ELSE IF Greater(apparent_temp_c, 0) THEN "Slight cold stress"
    ELSE IF Greater(apparent_temp_c, -13) THEN "Moderate cold stress"
    ELSE IF Greater(apparent_temp_c, -27) THEN "Strong cold stress"
    ELSE IF Greater(apparent_temp_c, -40) THEN "Very strong cold stress"
    ELSE "Extreme cold stress"

\* add_thermal_comfort(df, temp_col): the frame with the category and its three
\* translations, or KeyError when a category is not in COMFORT_TRANSLATIONS
AddThermalComfort(df, temp_col) ==
    LET stress_category == [i \in 1..Len(df) |-> GetStressCategory(df[i][temp_col])]
    IN  IF \E i \in 1..Len(df) : stress_category[i] \notin DOMAIN COMFORT_TRANSLATIONS
        THEN [fn |-> "add_thermal_comfort", df |-> df, outcome |-> "raised", result |-> <<>>]
        ELSE [fn |-> "add_thermal_comfort", df |-> df, outcome |-> "returned",
              result |-> [i \in 1..Len(df) |->
                  [apparent_temperature |-> df[i][temp_col],
                   stress_category |-> stress_category[i],
                   comfort_label |-> COMFORT_TRANSLATIONS[stress_category[i]][1],
                   comfort_advice |-> COMFORT_TRANSLATIONS[stress_category[i]][2],
                   comfort_color |-> COMFORT_TRANSLATIONS[stress_category[i]][3]]]]

\* np.select(conditions, choices, default=None) on a row with the second
\* condition tried first
WindLabelWindyFirst(wind_speed_10m, wind_gusts_10m) ==
    IF Greater(wind_speed_10m, 20) \/ Greater(wind_gusts_10m, 40)
    THEN "Windy - secure loose items"
    ELSE IF Greater(wind_speed_10m, 40) \/ Greater(wind_gusts_10m, 60)
    THEN "Dangerous wind - limit time outside"
    ELSE NA

\* np.select(conditions, choices, default=None) on a row: the choice of the
\* first condition that holds; no choice is "0", so replace("0", None) keeps it.
\* The dash of the labels is written "-".
WindLabel(wind_speed_10m, wind_gusts_10m) ==
    IF Greater(wind_speed_10m, 40) \/ Greater(wind_gusts_10m, 60)
    THEN "Dangerous wind - limit time outside"
    ELSE IF Greater(wind_speed_10m, 20) \/ Greater(wind_gusts_10m, 40)
    THEN "Windy - secure loose items"
    ELSE NA

\* synthesize_wind_label(df): None everywhere when a wind column is missing
SynthesizeWindLabel(df) ==
    [fn |-> "synthesize_wind_label", df |-> df, outcome |-> "returned",
     result |-> [i \in 1..Len(df) |->
         IF "wind_speed_10m" \notin DOMAIN df[i] \/ "wind_gusts_10m" \notin DOMAIN df[i]
         THEN [c \in DOMAIN df[i] \cup {"wind_label"} |->
                  IF c = "wind_label" THEN NA ELSE df[i][c]]
         ELSE [wind_speed_10m |-> df[i].wind_speed_10m,
               wind_gusts_10m |-> df[i].wind_gusts_10m,
               wind_label |-> WindLabel(df[i].wind_speed_10m, df[i].wind_gusts_10m)]]]

\* rolling(window=30, min_periods=7, center=True) of flag_anomalies
AnomalyWindow == 30

AnomalyMinPeriods == 7

\* the standard deviations a value has to be away from the mean
Sigmas == 2

\* the columns flag_anomalies checks
AnomalyColumns == <<"temperature_2m_max", "wind_speed_10m_max", "relative_humidity_2m_mean">>

NumMul(x, y) == IF IsNA(x) \/ IsNA(y) THEN NA ELSE Frac(x[1] * y[1], x[2] * y[2])

\* the trailing window of row i: its first and its last row
TrailingWindow(i, n) ==
    [first |-> IF i - AnomalyWindow + 1 < 1 THEN 1 ELSE i - AnomalyWindow + 1, last |-> i]

\* the centred window of row i: with center=True the window of an even size w
\* reaches from w/2 rows before the row to w/2 - 1 rows after it
CentredWindow(i, n) ==
    [first |-> IF i - (AnomalyWindow \div 2) < 1 THEN 1 ELSE i - (AnomalyWindow \div 2),
     last |-> IF i + ((AnomalyWindow - 1) \div 2) > n THEN n
              ELSE i + ((AnomalyWindow - 1) \div 2)]

\* the values of the window of row i that are not missing, in row order
WindowValues(s, i) ==
    DropNA(SubSeq(s, CentredWindow(i, Len(s)).first, CentredWindow(i, Len(s)).last))

\* .rolling(...).mean() of a window: NaN with fewer than min_periods values
WindowMean(values) ==
    IF Len(values) < AnomalyMinPeriods THEN NA ELSE NumDivInt(NumSum(values), Len(values))

\* the sum of the squares of the values
SumOfSquares(values) == NumSum([k \in 1..Len(values) |-> NumMul(values[k], values[k])])

\* the square of .rolling(...).std() of a window: the sample variance (ddof=1),
\* (sum of squares - sum^2 / count) / (count - 1)
WindowVariance(values) ==
    IF Len(values) < AnomalyMinPeriods THEN NA
    ELSE LET total == NumSum(values)
         IN  NumDivInt(NumSub(SumOfSquares(values), NumDivInt(NumMul(total, total), Len(values))),
                       Len(values) - 1)

\* (df[col] - rolling_mean).abs() > 2 * rolling_std at row i, with
\* fillna(False): both sides are non-negative, so the squares are compared
IsOutlier(s, i) ==
    LET values == WindowValues(s, i)
        rolling_mean == WindowMean(values)
        rolling_var == WindowVariance(values)
        deviation == NumSub(s[i], rolling_mean)
    IN  /\ ~IsNA(s[i])
        /\ ~IsNA(rolling_mean)
        /\ NumLt(NumMul(Num(Sigmas * Sigmas), rolling_var), NumMul(deviation, deviation))

\* the column of a frame as a series
Series(df, column) == [i \in 1..Len(df) |-> df[i][column]]

\* flag_anomalies(df): a copy of the frame with is_anomaly
FlagAnomalies(df) ==
    [fn |-> "flag_anomalies", df |-> df, outcome |-> "returned",
     result |-> [i \in 1..Len(df) |->
         [c \in DOMAIN df[i] \cup {"is_anomaly"} |->
             IF c = "is_anomaly"
             THEN \E k \in 1..Len(AnomalyColumns) :
                     /\ AnomalyColumns[k] \in DOMAIN df[i]
                     /\ IsOutlier(Series(df, AnomalyColumns[k]), i)
             ELSE df[i][c]]]]

----------------------------------------------------------------------------
(* Inputs: the API answers and the observation frame *)

\* the subsets of S with at most k elements
RECURSIVE SmallSubsets(_, _)
SmallSubsets(S, k) ==
    IF k = 0 THEN {{}}
    ELSE LET less == SmallSubsets(S, k - 1)
         IN  less \cup {T \cup {x} : T \in less, x \in S}

\* a synthetic forecast of each model for a day of the window
SyntheticForecast(key, day) ==
    CASE key = "ecmwf_ifs025" -> Num(10 + 2 * (day - 1))
      [] key = "gfs_seamless" -> Num(11 + 2 * (day - 1))
      [] key = "icon_seamless" -> Num(9 + 4 * (day - 1))
      [] key = "gem_global" -> Num(8 + 3 * (day - 1))

\* the JSON answer for the days 1..n, holding value[d] for day d: the days in
\* `absent` are not listed, the values of the days in `nulls` are null
Answer(mode, n, absent, nulls, value) ==
    LET days == SortedSeq((1..n) \ absent)
    IN  [mode |-> mode,
         time |-> days,
         temperature_2m_max |-> [i \in 1..Len(days) |->
                                    IF days[i] \in nulls THEN NA ELSE value[days[i]]]]

\* the same JSON answer with its days listed newest first
NewestFirst(answer) ==
    [answer EXCEPT
        !.time = [i \in 1..Len(answer.time) |-> answer.time[Len(answer.time) + 1 - i]],
        !.temperature_2m_max =
            [i \in 1..Len(answer.time) |-> answer.temperature_2m_max[Len(answer.time) + 1 - i]]]

NoCall == [outcome |-> "none", ev |-> NoLocals, report |-> <<>>]

Untouched ==
    /\ phase = "fresh"
    /\ requested = <<>>
    /\ outcome = "none"
    /\ nwp = EmptyFrame
    /\ ev = NoLocals
    /\ report = <<>>
    /\ prev = NoCall

NoReorder == [models |-> <<>>, outcome |-> "none", frame |-> EmptyFrame]

NoSession == [fn |-> "none", given |-> <<>>, periods |-> 0, results |-> <<>>]

NoTransform == [fn |-> "none", df |-> <<>>, outcome |-> "none", result |-> <<>>]

\* validate and the transformation functions were not called yet
Resting ==
    /\ checked = NoValidation
    /\ reordered = NoReorder
    /\ session = NoSession
    /\ enriched = NoTransform

\* no component was called yet
AtRest ==
    /\ baselines_call = NoBaselines
    /\ prophet = ProphetWorks
    /\ forecast = NoForecast
    /\ tab = NoTab
    /\ run = NoRun
    /\ Resting

\* the aggregator alone: a window of up to MaxDates days, every model in any
\* fetch mode, up to MaxGaps cells of the answering models null or not listed,
\* the days of the answers listed oldest first or newest first
InitAggregator ==
    /\ daily_df = <<>>
    /\ \E n \in 0..MaxDates, modes \in [ModelKeys -> FetchModes], newest \in BOOLEAN :
         \E gaps \in SmallSubsets({c \in ModelKeys \X (1..n) : modes[c[1]] = "ok"}, MaxGaps) :
           \E nulls \in SUBSET gaps :
             LET answers ==
                   [key \in ModelKeys |->
                      Answer(modes[key], n,
                             {c[2] : c \in {g \in gaps \ nulls : g[1] = key}},
                             {c[2] : c \in {g \in nulls : g[1] = key}},
                             [d \in 1..n |-> SyntheticForecast(key, d)])]
             IN  api = [key \in ModelKeys |->
                          IF newest THEN NewestFirst(answers[key]) ELSE answers[key]]
    /\ Untouched
    /\ AtRest

\* the temperature that was observed on a day of the synthetic history
Truth(day) == 10 + (day % 3)

\* the disagreement of a model with the others on a day
Noise(key, day) ==
    CASE key = "ecmwf_ifs025" -> day % 2
      [] key = "gfs_seamless" -> 1 - (day % 3)
      [] key = "icon_seamless" -> 0
      [] key = "gem_global" -> (day % 5) - 2

Scenarios == {"biased", "noisy", "gappy", "nulls", "down", "broken"}

\* the observation frame of a scenario: n days from day 1, ascending, at midnight
ScenarioFrame(sc, n) ==
    [i \in 1..n |->
        [date |-> i * HoursPerDay,
         temperature_2m_max |-> IF sc = "gappy" /\ i % 3 = 0 THEN NA ELSE Num(Truth(i))]]

\* the API answers of a scenario: every model 2 degrees too warm ("biased"), the
\* models disagreeing ("noisy"), also with every fifth day null and every third
\* observation missing ("gappy"), every
\* value null ("nulls"), every request failing ("down"), every payload unusable
\* ("broken")
ScenarioApi(sc, n) ==
    [key \in ModelKeys |->
        Answer(CASE sc = "down" -> "request_failed"
                 [] sc = "broken" -> "frame_failed"
                 [] OTHER -> "ok",
               n, {},
               CASE sc = "nulls" -> 1..n
                 [] sc = "gappy" -> {d \in 1..n : d % 5 = 0}
                 [] OTHER -> {},
               [d \in 1..n |->
                   Num(Truth(d) + 2 + (IF sc = "biased" THEN 0 ELSE Noise(key, d)))])]

\* a history of up to MaxDays days in any scenario
Init ==
    /\ \E sc \in Scenarios, n \in 1..MaxDays :
         /\ daily_df = ScenarioFrame(sc, n)
         /\ api = ScenarioApi(sc, n)
    /\ Untouched
    /\ AtRest

\* a history of a month or more, the models agreeing or not
InitMonth ==
    /\ \E sc \in {"biased", "noisy"}, n \in MinMonth..(MinMonth + 1) :
         /\ daily_df = ScenarioFrame(sc, n)
         /\ api = ScenarioApi(sc, n)
    /\ Untouched
    /\ AtRest

----------------------------------------------------------------------------
(* Operations *)

\* the caller runs fetch_nwp_history()
CallFetchNwpHistory ==
    /\ phase = "fresh"
    /\ LET r == FetchNwpHistory(api)
       IN  /\ requested' = r.requested
           /\ outcome' = r.outcome
           /\ nwp' = r.frame
    /\ phase' = "fetched"
    /\ UNCHANGED <<daily_df, api, ev, report, prev>>
    /\ UNCHANGED others

\* the caller runs evaluate_all_models(daily_df), a first or a second time
CallEvaluateAllModels ==
    /\ phase \in {"fresh", "evaluated", "revised"}
    /\ LET r == EvaluateAllModels(daily_df, api)
       IN  /\ requested' = r.requested
           /\ outcome' = r.outcome
           /\ nwp' = r.nwp
           /\ ev' = r.ev
           /\ report' = r.report
    /\ phase' = IF phase = "fresh" THEN "evaluated" ELSE "reevaluated"
    /\ prev' = [outcome |-> outcome, ev |-> ev, report |-> report]
    /\ UNCHANGED <<daily_df, api>>
    /\ UNCHANGED others

\* between two evaluations an observation is revised (or lost)
ReviseObservation ==
    /\ phase = "evaluated"
    /\ \E i \in 1..Len(daily_df), v \in {NA, Num(20)} :
         /\ v # daily_df[i].temperature_2m_max
         /\ daily_df' = [daily_df EXCEPT ![i].temperature_2m_max = v]
    /\ phase' = "revised"
    /\ UNCHANGED <<api, requested, outcome, nwp, ev, report, prev>>
    /\ UNCHANGED others

\* between two evaluations the API revises (or loses) one value of the first model
ReviseForecast ==
    /\ phase = "evaluated"
    /\ LET key == NWP_MODELS[1]
       IN  \E i \in 1..Len(api[key].time), v \in {NA, Num(25)} :
             /\ v # api[key].temperature_2m_max[i]
             /\ api' = [api EXCEPT ![key].temperature_2m_max[i] = v]
    /\ phase' = "revised"
    /\ UNCHANGED <<daily_df, requested, outcome, nwp, ev, report, prev>>
    /\ UNCHANGED others

\* between two evaluations a model becomes available or unavailable
ChangeAvailability ==
    /\ phase = "evaluated"
    /\ \E key \in ModelKeys, mode \in FetchModes :
         /\ mode # api[key].mode
         /\ api' = [api EXCEPT ![key].mode = mode]
    /\ phase' = "revised"
    /\ UNCHANGED <<daily_df, requested, outcome, nwp, ev, report, prev>>
    /\ UNCHANGED others

Next ==
    \/ CallEvaluateAllModels
    \/ ReviseObservation
    \/ ReviseForecast
    \/ ChangeAvailability

Spec == Init /\ [][Next]_vars

SpecMonth == InitMonth /\ [][Next]_vars

NextAggregator == CallFetchNwpHistory

SpecAggregator == InitAggregator /\ [][NextAggregator]_vars

\* a shorter window with fewer gaps, the days listed oldest first
InitReordered ==
    /\ daily_df = <<>>
    /\ \E n \in 0..(MaxDates - 1), modes \in [ModelKeys -> FetchModes] :
         \E gaps \in SmallSubsets({c \in ModelKeys \X (1..n) : modes[c[1]] = "ok"},
                                  MaxGaps - 1) :
           \E nulls \in SUBSET gaps :
             api = [key \in ModelKeys |->
                      Answer(modes[key], n,
                             {c[2] : c \in {g \in gaps \ nulls : g[1] = key}},
                             {c[2] : c \in {g \in nulls : g[1] = key}},
                             [d \in 1..n |-> SyntheticForecast(key, d)])]
    /\ Untouched
    /\ AtRest

\* the orders the items of NWP_MODELS can be held in
ModelOrders ==
    {order \in [1..Len(NWP_MODELS) -> ModelKeys] : Range(order) = ModelKeys}

\* the same fetch with the models requested and joined in another order
CallFetchReordered ==
    /\ phase = "fetched"
    /\ reordered.outcome = "none"
    /\ \E models \in ModelOrders \ {NWP_MODELS} :
         LET r == FetchNwpHistoryOver(models, api)
         IN  reordered' = [models |-> r.requested, outcome |-> r.outcome, frame |-> r.frame]
    /\ UNCHANGED <<daily_df, api, phase, requested, outcome, nwp, ev, report, prev,
                   baselines_call, prophet, forecast, tab, run, checked, session,
                   enriched>>

NextReordered ==
    \/ CallFetchNwpHistory
    \/ CallFetchReordered

SpecReordered == InitReordered /\ [][NextReordered]_vars

----------------------------------------------------------------------------
(* compute_baselines and make_forecast on short multi-year series *)

\* the days before 1 January of year y, counted from 1 January of EpochYear
RECURSIVE DaysBefore(_)
DaysBefore(y) == IF y = EpochYear THEN 0 ELSE DaysBefore(y - 1) + DaysIn(y - 1)

\* 1 and 2 January of three successive years
JanuaryDays == UNION {{DaysBefore(y) + 1, DaysBefore(y) + 2} : y \in EpochYear..(EpochYear + 2)}

\* the observation frames of up to MaxSeries of these days, ascending, at
\* midnight, each value one of `values`
SeriesOver(values) ==
    UNION {{[i \in 1..Len(SortedSeq(D)) |->
                [date |-> ToDatetime(SortedSeq(D)[i]), temperature_2m_max |-> v[i]]] :
            v \in [1..Cardinality(D) -> values]} :
           D \in SmallSubsets(JanuaryDays, MaxSeries) \ {{}}}

NoApi == [key \in ModelKeys |-> Answer("request_failed", 0, {}, {}, <<>>)]

InitBaselines ==
    /\ daily_df \in SeriesOver({NA, Num(10), Num(13), Num(14)})
    /\ api = NoApi
    /\ Untouched
    /\ AtRest

CallComputeBaselines ==
    /\ baselines_call.outcome = "none"
    /\ baselines_call' = BaselinesCall(daily_df)
    /\ UNCHANGED <<daily_df, api, phase, requested, outcome, nwp, ev, report, prev,
                   prophet, forecast, tab, run, rest>>

NextBaselines == CallComputeBaselines

SpecBaselines == InitBaselines /\ [][NextBaselines]_vars

\* the library's fit converges or not; its estimate is one level or another
ProphetBehaviours == [converges : BOOLEAN, yhat : {Num(12), Num(28)}]

InitSeasonal ==
    /\ daily_df \in SeriesOver({NA, Num(10)})
    /\ api = NoApi
    /\ Untouched
    /\ baselines_call = NoBaselines
    /\ prophet \in ProphetBehaviours
    /\ forecast = NoForecast
    /\ tab = NoTab
    /\ run = NoRun
    /\ Resting

CallMakeForecast ==
    /\ forecast.outcome = "none"
    /\ \E periods \in 0..MaxPeriods : forecast' = MakeForecast(daily_df, periods, prophet)
    /\ UNCHANGED <<daily_df, api, phase, requested, outcome, nwp, ev, report, prev,
                   baselines_call, prophet, tab, run, rest>>

NextSeasonal == CallMakeForecast

SpecSeasonal == InitSeasonal /\ [][NextSeasonal]_vars

----------------------------------------------------------------------------
(* The forecast tab *)

\* a frame of n consecutive days from day `first`: the ensemble's rows
EnsembleFrame(first, n) ==
    [i \in 1..n |-> [date |-> ToDatetime(first + i - 1), mean |-> Num(15)]]

\* the single-model forecast's rows, the rows without a temperature dropped
ApiFrame(first, n) ==
    [i \in 1..n |-> [date |-> ToDatetime(first + i - 1), temp |-> Num(16)]]

\* what _fetch_ensemble_forecast returns: None (the request failed, or no day
\* has a member), or the rows of the days that have one; the forecast starts
\* on the last observed day at the earliest
EnsembleAnswers ==
    {None} \cup {Some(EnsembleFrame(first, n)) :
                    first \in {MaxHistory, MaxHistory + 2}, n \in {3, ForecastDays}}

\* what _fetch_api_forecast returns: None, or the rows left by dropna, all,
\* a few or none of them
ApiAnswers ==
    {None} \cup {Some(ApiFrame(MaxHistory + 1, n)) : n \in {0, 3, ForecastDays}}

\* the observation frame of the dashboard: n consecutive days, the last value
\* possibly missing
History(n, last) ==
    [i \in 1..n |-> [date |-> ToDatetime(i),
                      temperature_2m_max |-> IF i = n THEN last ELSE Num(10)]]

InitDashboard ==
    /\ \E n \in 1..MaxHistory, last \in {NA, Num(10)} : daily_df = History(n, last)
    /\ api = NoApi
    /\ Untouched
    /\ baselines_call = NoBaselines
    /\ prophet \in {p \in ProphetBehaviours : p.yhat = Num(12)}
    /\ forecast = NoForecast
    /\ \E hh \in BOOLEAN, e \in EnsembleAnswers, a \in ApiAnswers :
         tab = [NoTab EXCEPT !.has_historical = hh, !.ensemble = e, !.api_fc = a]
    /\ run = NoRun
    /\ Resting

\* the page is rendered
Render ==
    /\ LET r == RenderForecast(daily_df, tab.has_historical, tab.ensemble, tab.api_fc,
                               tab.cache, prophet)
       IN  tab' = [tab EXCEPT !.render = r.render, !.cache = r.cache]
    /\ UNCHANGED <<daily_df, api, phase, requested, outcome, nwp, ev, report, prev,
                   baselines_call, prophet, forecast, run, rest>>

\* the pipeline ran: daily_df has one more day
RefreshData ==
    /\ Len(daily_df) < MaxHistory
    /\ \E v \in {NA, Num(10)} :
         daily_df' = Append(daily_df, [date |-> ToDatetime(Len(daily_df) + 1),
                                       temperature_2m_max |-> v])
    /\ UNCHANGED <<api, phase, requested, outcome, nwp, ev, report, prev,
                   baselines_call, prophet, forecast, tab, run, rest>>

\* ttl=3600 elapsed: the entry of _cached_forecast is gone
ExpireCache ==
    /\ tab.cache.some
    /\ tab' = [tab EXCEPT !.cache = EmptyCache]
    /\ UNCHANGED <<daily_df, api, phase, requested, outcome, nwp, ev, report, prev,
                   baselines_call, prophet, forecast, run, rest>>

NextDashboard ==
    \/ Render
    \/ RefreshData
    \/ ExpireCache

SpecDashboard == InitDashboard /\ [][NextDashboard]_vars

----------------------------------------------------------------------------
(* The pipeline run *)

InitPipeline ==
    /\ daily_df = <<>>
    /\ api = NoApi
    /\ Untouched
    /\ baselines_call = NoBaselines
    /\ prophet = ProphetWorks
    /\ forecast = NoForecast
    /\ tab = NoTab
    /\ \E f \in Faults : run = StartOfRun(f)
    /\ Resting

\* what a stage of main leaves alone
NotTheRun == <<daily_df, api, phase, requested, outcome, nwp, ev, report, prev,
               baselines_call, prophet, forecast, tab, rest>>

Extract ==
    /\ run.pc = "extract"
    /\ run' = ExtractStage(run)
    /\ UNCHANGED NotTheRun

Supplementary ==
    /\ run.pc = "supplementary"
    /\ run' = SupplementaryStage(run)
    /\ UNCHANGED NotTheRun

Validate ==
    /\ run.pc = "validate"
    /\ run' = ValidateStage(run)
    /\ UNCHANGED NotTheRun

Transform ==
    /\ run.pc = "transform"
    /\ run' = TransformStage(run)
    /\ UNCHANGED NotTheRun

Load ==
    /\ run.pc = "load"
    /\ run' = LoadStage(run)
    /\ UNCHANGED NotTheRun

NextPipeline ==
    \/ Extract
    \/ Supplementary
    \/ Validate
    \/ Transform
    \/ Load

SpecPipeline == InitPipeline /\ [][NextPipeline]_vars

----------------------------------------------------------------------------
(* The validation gate on the frames of the extraction *)

\* a row that conforms to the schema: the values of a summer day
ValidValues(schema) ==
    IF schema = DailyWeatherSchema
    THEN <<Num(ToDatetime(1)), Num(25), Num(15), Num(27), Num(13), Frac(5, 2), Num(15),
           Num(65), Num(3), Num(52000)>>
    ELSE <<Num(ToDatetime(1)), Num(22), Num(24), Num(55), Num(8), Num(20), Num(10),
           Frac(1, 2), Num(5), Num(2), Num(10000)>>

RowOf(schema, values) ==
    [name \in {schema[k].name : k \in 1..Len(schema)} |->
        values[CHOOSE k \in 1..Len(schema) : schema[k].name = name]]

\* the values a column is probed with: at, just inside and just outside its
\* bounds, and null; the date column is built by pd.date_range and never null
Probes(check) ==
    CASE check.kind = "in_range" ->
            {Num(check.min - 1), Num(check.min), Num(check.max),
             Frac(2 * check.max + 1, 2), NA}
      [] check.kind = "ge" -> {Num(check.min - 1), Frac(2 * check.min - 1, 2), Num(check.min), NA}
      [] check.kind = "gt" -> {Num(check.min - 1), Num(check.min), Frac(2 * check.min + 1, 2), NA}
      [] check.kind = "none" -> {}

\* the rows of a frame: the conforming row, or that row with one probed cell
RowsOf(schema) ==
    {RowOf(schema, ValidValues(schema))}
    \cup UNION {{RowOf(schema, [ValidValues(schema) EXCEPT ![k] = v]) :
                    v \in Probes(schema[k].check)} : k \in 1..Len(schema)}

InitQuality ==
    /\ daily_df = <<>>
    /\ api = NoApi
    /\ Untouched
    /\ baselines_call = NoBaselines
    /\ prophet = ProphetWorks
    /\ forecast = NoForecast
    /\ tab = NoTab
    /\ run = NoRun
    /\ reordered = NoReorder
    /\ session = NoSession
    /\ enriched = NoTransform
    /\ \E schema \in {DailyWeatherSchema, HourlyWeatherSchema}, n \in 1..MaxRows :
         \E df \in [1..n -> RowsOf(schema)] :
           checked = [NoValidation EXCEPT !.schema = schema, !.df = df]

\* what validate leaves alone
NotChecked == <<daily_df, api, phase, requested, outcome, nwp, ev, report, prev,
                baselines_call, prophet, forecast, tab, run, reordered, session,
                enriched>>

\* main calls validate(df, schema)
CallValidate ==
    /\ checked.outcome = "none"
    /\ checked' = ValidateFrame(checked.df, checked.schema)
    /\ UNCHANGED NotChecked

NextQuality == CallValidate

SpecQuality == InitQuality /\ [][NextQuality]_vars

----------------------------------------------------------------------------
(* A caller that calls a function again with the same inputs *)

\* the frames of SeriesOver with every date `hours` after midnight
Later(df, hours) == [i \in 1..Len(df) |-> [df[i] EXCEPT !.date = @ + hours]]

\* every model answers for two days, no model answers, no answer is usable
SessionApis ==
    {[key \in ModelKeys |-> Answer(mode, 2, {}, {}, [d \in 1..2 |-> SyntheticForecast(key, d)])] :
        mode \in FetchModes}

InitSession ==
    /\ \E df \in SeriesOver({NA, Num(10)}), hours \in {0, 6} :
         /\ daily_df = Later(df, hours)
         /\ \E fn \in {"compute_baselines", "evaluate_all_models", "make_forecast"} :
              /\ session = [NoSession EXCEPT !.fn = fn, !.given = Later(df, hours),
                                             !.periods = IF fn = "make_forecast"
                                                         THEN MaxPeriods ELSE 0]
              /\ IF fn = "evaluate_all_models" THEN api \in SessionApis ELSE api = NoApi
              /\ IF fn = "make_forecast" THEN prophet \in ProphetBehaviours
                 ELSE prophet = ProphetWorks
    /\ Untouched
    /\ baselines_call = NoBaselines
    /\ forecast = NoForecast
    /\ tab = NoTab
    /\ run = NoRun
    /\ checked = NoValidation
    /\ reordered = NoReorder
    /\ enriched = NoTransform

\* what a call of the session leaves alone
NotTheSession == <<api, phase, requested, outcome, nwp, ev, report, prev,
                   baselines_call, prophet, forecast, tab, run, checked, reordered,
                   enriched>>

\* the caller runs compute_baselines(daily_df)
AskBaselines ==
    /\ session.fn = "compute_baselines"
    /\ Len(session.results) < MaxCalls
    /\ daily_df' = CallersFrame(BaselinesEffect(<<daily_df>>, 1))
    /\ session' = [session EXCEPT !.results = Append(@, ComputeBaselines(daily_df))]
    /\ UNCHANGED NotTheSession

\* the caller runs evaluate_all_models(daily_df)
AskEvaluation ==
    /\ session.fn = "evaluate_all_models"
    /\ Len(session.results) < MaxCalls
    /\ LET fetched == FetchNwpHistory(api)
           r == ScoreFetched(daily_df, fetched)
       IN  /\ daily_df' = CallersFrame(EvaluationEffect(<<daily_df>>, 1, fetched))
           /\ session' = [session EXCEPT
                            !.results = Append(@, [outcome |-> r.outcome, report |-> r.report])]
    /\ UNCHANGED NotTheSession

\* the caller runs make_forecast(daily_df, periods=periods)
AskForecast ==
    /\ session.fn = "make_forecast"
    /\ Len(session.results) < MaxCalls
    /\ daily_df' = CallersFrame(ForecastEffect(<<daily_df>>, 1))
    /\ session' = [session EXCEPT
                     !.results = Append(@, MakeForecast(daily_df, session.periods, prophet))]
    /\ UNCHANGED NotTheSession

NextSession ==
    \/ AskBaselines
    \/ AskEvaluation
    \/ AskForecast

SpecSession == InitSession /\ [][NextSession]_vars

----------------------------------------------------------------------------
(* The transformations on the frames of the pipeline *)

\* the thresholds of _get_stress_category
StressThresholds == {46, 38, 32, 26, 9, 0, -13, -27, -40}

\* apparent temperatures at, just below and just above every threshold, and a
\* missing one
ComfortProbes ==
    UNION {{Frac(2 * t - 1, 2), Num(t), Frac(2 * t + 1, 2)} : t \in StressThresholds}
    \cup {NA}

\* wind speeds and gusts at and around the thresholds of synthesize_wind_label
SpeedProbes == {Num(10), Num(20), Frac(41, 2), Num(40), Frac(81, 2), NA}

GustProbes == {Num(20), Num(40), Frac(81, 2), Num(60), Frac(121, 2), NA}

\* a daily frame of n days: every checked column constant, but for the days in
\* `spikes` of column `column`, which hold `height` more, and the days in
\* `missing`, which hold no value in that column
AnomalyFrame(n, column, spikes, missing, height) ==
    [i \in 1..n |->
        [c \in Range(AnomalyColumns) |->
            LET level == CASE c = "temperature_2m_max" -> 10
                           [] c = "wind_speed_10m_max" -> 5
                           [] c = "relative_humidity_2m_mean" -> 60
            IN  IF c # column THEN Num(level)
                ELSE IF i \in missing THEN NA
                ELSE IF i \in spikes THEN Num(level + height)
                ELSE Num(level)]]

\* the days of a frame of n days that can hold a spike: its first two, its
\* middle and its last two
SpikeDays(n) == {1, 2, n \div 2, n - 1, n} \cap (1..n)

TransformInputs(fn) ==
    CASE fn = "add_thermal_comfort" ->
            UNION {[1..n -> {[apparent_temperature |-> t] : t \in ComfortProbes}] :
                      n \in 1..MaxRows}
      [] fn = "synthesize_wind_label" ->
            UNION {[1..n -> [wind_speed_10m : SpeedProbes, wind_gusts_10m : GustProbes]] :
                      n \in 1..MaxRows}
      [] fn = "flag_anomalies" ->
            UNION {{AnomalyFrame(n, column, spikes, missing, 30) :
                       column \in Range(AnomalyColumns),
                       spikes \in SmallSubsets(SpikeDays(n), 2),
                       missing \in {{}, {1}}} : n \in 1..MaxAnomalyDays}

InitTransform ==
    /\ daily_df = <<>>
    /\ api = NoApi
    /\ Untouched
    /\ baselines_call = NoBaselines
    /\ prophet = ProphetWorks
    /\ forecast = NoForecast
    /\ tab = NoTab
    /\ run = NoRun
    /\ checked = NoValidation
    /\ reordered = NoReorder
    /\ session = NoSession
    /\ \E fn \in {"add_thermal_comfort", "synthesize_wind_label", "flag_anomalies"} :
         \E df \in TransformInputs(fn) : enriched = [NoTransform EXCEPT !.fn = fn, !.df = df]

\* what a transformation leaves alone
NotEnriched == <<daily_df, api, phase, requested, outcome, nwp, ev, report, prev,
                 baselines_call, prophet, forecast, tab, run, checked, reordered, session>>

CallAddThermalComfort ==
    /\ enriched.fn = "add_thermal_comfort"
    /\ enriched.outcome = "none"
    /\ enriched' = AddThermalComfort(enriched.df, "apparent_temperature")
    /\ UNCHANGED NotEnriched

CallSynthesizeWindLabel ==
    /\ enriched.fn = "synthesize_wind_label"
    /\ enriched.outcome = "none"
    /\ enriched' = SynthesizeWindLabel(enriched.df)
    /\ UNCHANGED NotEnriched

CallFlagAnomalies ==
    /\ enriched.fn = "flag_anomalies"
    /\ enriched.outcome = "none"
    /\ enriched' = FlagAnomalies(enriched.df)
    /\ UNCHANGED NotEnriched

NextTransform ==
    \/ CallAddThermalComfort
    \/ CallSynthesizeWindLabel
    \/ CallFlagAnomalies

SpecTransform == InitTransform /\ [][NextTransform]_vars

----------------------------------------------------------------------------
(* What the claims speak of, read off the inputs and the locals *)

\* the sum of the numbers f[x], x in S
RECURSIVE SumOver(_, _)
SumOver(S, f) ==
    IF S = {} THEN Num(0)
    ELSE LET x == CHOOSE y \in S : TRUE
         IN  NumAdd(f[x], SumOver(S \ {x}, f))

MeanOver(S, f) == NumDivInt(SumOver(S, f), Cardinality(S))

\* the models whose frame was built
Succeeded == {key \in ModelKeys : api[key].mode = "ok"}

\* what a model's answer holds for a day: NA when the day is not listed
Forecast(key, day) ==
    LET at == {i \in 1..Len(api[key].time) : api[key].time[i] = day}
    IN  IF at = {} THEN NA ELSE api[key].temperature_2m_max[CHOOSE i \in at : TRUE]

\* the days listed by a model that succeeded
ListedDays == UNION {Range(api[key].time) : key \in Succeeded}

\* the models that succeeded and have a value for the day
Contributing(day) == {key \in Succeeded : ~IsNA(Forecast(key, day))}

Evaluated == phase \in {"evaluated", "reevaluated"}

\* the rows of the last evaluation before row i, at most RollingWindow of them
Preceding(i) == {j \in 1..(i - 1) : j >= i - RollingWindow}

\* those with a valid error: an observation (the rows all have an ensemble mean)
ValidPreceding(i) == {j \in Preceding(i) : ~IsNA(ev.merged[j].temperature_2m_max)}

\* ensemble_mean minus actual at row j
ErrorAt(j) == NumSub(ev.merged[j].ensemble_mean, ev.merged[j].temperature_2m_max)

\* the rows of the last evaluation that have an observation and a rolling bias
Scored == {i \in 1..Len(ev.merged) :
              ~IsNA(ev.merged[i].temperature_2m_max) /\ ~IsNA(ev.rolling_bias[i])}

----------------------------------------------------------------------------
(* Claims *)

\* C1: when fetch_nwp_history returns a table, it has a row for every day listed
\* by a model that succeeded, and on every row with at least one contributing
\* model the ensemble mean is the sum of the contributing models' values divided
\* by their number: a missing value is neither imputed nor counted as zero.
C1_EnsembleMeanOfAvailable ==
    (phase = "fetched" /\ outcome = "returned" /\ Succeeded # {}) =>
        /\ {r.date : r \in Range(nwp.rows)} = {ToDatetime(d) : d \in ListedDays}
        /\ \A d \in ListedDays :
             \A r \in Range(nwp.rows) :
               (r.date = ToDatetime(d) /\ Contributing(d) # {}) =>
                   r.ensemble_mean =
                       MeanOver(Contributing(d), [k \in Contributing(d) |-> Forecast(k, d)])

\* C1 witness: A = [10, 12, 14], B = [11, NA, 15], C = [9, 13, NA], the fourth
\* model unavailable, gives the means [10, 12.5, 14.5]
C1_Witness ==
    /\ phase = "fetched"
    /\ outcome = "returned"
    /\ api["gem_global"].mode = "request_failed"
    /\ api["ecmwf_ifs025"].temperature_2m_max = <<Num(10), Num(12), Num(14)>>
    /\ api["gfs_seamless"].temperature_2m_max = <<Num(11), NA, Num(15)>>
    /\ api["icon_seamless"].temperature_2m_max = <<Num(9), Num(13), NA>>
    /\ [i \in 1..Len(nwp.rows) |-> nwp.rows[i].ensemble_mean] = <<Num(10), <<25, 2>>, <<29, 2>>>>

\* C2: no leakage.  For two evaluations whose aligned rows (date, observation,
\* ensemble mean) agree on every date before t, t aligned in both, the rolling
\* bias at t is the same, whatever the rows at t and later hold.
C2_NoLeakage ==
    phase = "reevaluated" =>
        \A i \in 1..Len(ev.merged) :
            (/\ i <= Len(prev.ev.merged)
             /\ prev.ev.merged[i].date = ev.merged[i].date
             /\ SubSeq(prev.ev.merged, 1, i - 1) = SubSeq(ev.merged, 1, i - 1))
            => prev.ev.rolling_bias[i] = ev.rolling_bias[i]

\* C2 witness: two evaluations that agree before a date, differ on it, and have a
\* rolling bias for it
C2_Witness ==
    /\ phase = "reevaluated"
    /\ \E i \in 1..Len(ev.merged) :
         /\ i <= Len(prev.ev.merged)
         /\ prev.ev.merged[i].date = ev.merged[i].date
         /\ SubSeq(prev.ev.merged, 1, i - 1) = SubSeq(ev.merged, 1, i - 1)
         /\ prev.ev.merged[i] # ev.merged[i]
         /\ ~IsNA(ev.rolling_bias[i])

\* C3: the aligned rows are in ascending date order, and the rolling bias at a
\* row is the mean of the valid errors among the 14 rows before it, defined if
\* and only if at least 7 of them are valid; so not on the first 7 rows.
C3_RollingBias ==
    Evaluated =>
        /\ \A i \in 2..Len(ev.merged) : ev.merged[i - 1].date < ev.merged[i].date
        /\ Len(ev.rolling_bias) = Len(ev.merged)
        /\ \A i \in 1..Len(ev.merged) :
             /\ Cardinality(ValidPreceding(i)) >= MinPeriods =>
                    ev.rolling_bias[i] =
                        MeanOver(ValidPreceding(i), [j \in ValidPreceding(i) |-> ErrorAt(j)])
             /\ Cardinality(ValidPreceding(i)) < MinPeriods => IsNA(ev.rolling_bias[i])
             /\ i <= MinPeriods => IsNA(ev.rolling_bias[i])

\* C3 witness: a row with more than 14 rows before it, a missing observation
\* among the 14, and a rolling bias; and a row after the 7th without one
C3_Witness ==
    /\ Evaluated
    /\ \E i \in 1..Len(ev.merged) :
         /\ i > RollingWindow + 1
         /\ ValidPreceding(i) # Preceding(i)
         /\ ~IsNA(ev.rolling_bias[i])
    /\ \E i \in 1..Len(ev.merged) : i > MinPeriods /\ IsNA(ev.rolling_bias[i])

\* C4: the corrected value is the ensemble mean minus the rolling bias, undefined
\* where the rolling bias is; the rows scored for the corrected MAE are exactly
\* those with an observation and a rolling bias, n_days counts them, and the
\* corrected MAE is the mean of |corrected - observation| over them.
C4_CorrectedOnlyWhereBiasDefined ==
    (Evaluated /\ report # <<>>) =>
        /\ \A i \in 1..Len(ev.merged) :
             ev.corrected[i] = IF IsNA(ev.rolling_bias[i]) THEN NA
                               ELSE NumSub(ev.merged[i].ensemble_mean, ev.rolling_bias[i])
        /\ {r.date : r \in Range(ev.valid_corrected)} = {ev.merged[i].date : i \in Scored}
        /\ report.n_days = Cardinality(Scored)
        /\ Scored # {} =>
             report.ensemble_corrected_mae =
                 Round(MeanOver(Scored,
                                [i \in Scored |->
                                    NumAbs(NumSub(NumSub(ev.merged[i].ensemble_mean,
                                                         ev.rolling_bias[i]),
                                                  ev.merged[i].temperature_2m_max))]), 2)

\* C4 witness: a report that scores some rows and leaves out a row that has an
\* observation and a nonzero error but no rolling bias
C4_Witness ==
    /\ Evaluated
    /\ report # <<>>
    /\ report.n_days > 0
    /\ \E i \in 1..Len(ev.merged) :
         /\ IsNA(ev.rolling_bias[i])
         /\ ~IsNA(ev.merged[i].temperature_2m_max)
         /\ ErrorAt(i) # Num(0)

\* C5 (as claimed): whatever fails for some models, every model is requested and
\* fetch_nwp_history returns the table of exactly the models that succeeded.
C5_FailureIsolated ==
    phase = "fetched" =>
        /\ requested = NWP_MODELS
        /\ outcome = "returned"
        /\ Succeeded # {} =>
             Range(nwp.columns) = {"date", "ensemble_mean"} \cup {ColumnOf(k) : k \in Succeeded}

\* C6: when every model fails, in whichever way, the fetch inside
\* evaluate_all_models returns an empty table and evaluate_all_models returns {}
\* without raising and with no metric computed.
C6_AllModelsFailed ==
    (Evaluated /\ Succeeded = {}) =>
        /\ outcome = "returned"
        /\ requested = NWP_MODELS
        /\ IsEmptyFrame(nwp)
        /\ report = <<>>
        /\ ev = NoLocals

\* C6 witness: an evaluation with every model failing, some at the request and
\* some while the frame is built
C6_Witness ==
    /\ Evaluated
    /\ Succeeded = {}
    /\ \E k \in ModelKeys : api[k].mode = "request_failed"
    /\ \E k \in ModelKeys : api[k].mode = "frame_failed"
    /\ report = <<>>

\* C7 (as claimed): every row fetch_nwp_history returns has a contributing model
\* and a defined ensemble mean.
C7_NoRowWithoutModel ==
    (phase = "fetched" /\ outcome = "returned") =>
        \A r \in Range(nwp.rows) :
            /\ ~IsNA(r.ensemble_mean)
            /\ \E c \in DOMAIN r.values : ~IsNA(r.values[c])

\* C8: with an error of exactly +2 on each of at least 30 aligned dates the report
\* has nwp_bias 2.0 and a raw MAE of 2.0, the corrected value is the observation
\* wherever the rolling bias is defined, and the corrected MAE is 0.
C8_ConstantBiasRemoved ==
    (/\ Evaluated
     /\ Len(ev.merged) >= MinMonth
     /\ \A i \in 1..Len(ev.merged) : ErrorAt(i) = Num(2)) =>
        /\ report.nwp_bias = Num(2)
        /\ report.ensemble_raw_mae = Num(2)
        /\ \A i \in 1..Len(ev.merged) :
             ~IsNA(ev.rolling_bias[i]) => ev.corrected[i] = ev.merged[i].temperature_2m_max
        /\ report.ensemble_corrected_mae = Num(0)

\* C8 witness: such a history, scored on the rows from the 8th on
C8_Witness ==
    /\ Evaluated
    /\ Len(ev.merged) >= MinMonth
    /\ \A i \in 1..Len(ev.merged) : ErrorAt(i) = Num(2)
    /\ report.n_days = Len(ev.merged) - MinPeriods

\* C9 (as claimed): a report made from fewer than 8 aligned rows has no
\* corrected-ensemble entry.
C9_CorrectedOmitted ==
    (Evaluated /\ report # <<>> /\ Len(ev.merged) <= MinPeriods) =>
        "ensemble_corrected_mae" \notin DOMAIN report

\* C10 (as claimed): when no row is left after the alignment, the report is the
\* empty one.
C10_NoRowsNoReport ==
    (Evaluated /\ outcome = "returned" /\ ev.merged = <<>>) => report = <<>>

\* C11 (as claimed): the table fetch_nwp_history returns is in ascending date
\* order, whatever the number of models fetched and the order of their days.
C11_AscendingDates ==
    (phase = "fetched" /\ outcome = "returned") =>
        \A i \in 2..Len(nwp.rows) : nwp.rows[i - 1].date < nwp.rows[i].date

\* the observations of daily_df, the missing ones dropped, in order
Observations == DropNA(Temps(daily_df))

\* the rows of daily_df that share the day of the year of row i and have a value
DoyGroup(i) ==
    {j \in 1..Len(daily_df) :
        /\ DayOfYear(daily_df[j].date) = DayOfYear(daily_df[i].date)
        /\ ~IsNA(daily_df[j].temperature_2m_max)}

Observed == {i \in 1..Len(daily_df) : ~IsNA(daily_df[i].temperature_2m_max)}

\* C12: the persistence MAE is the mean of |value[t] - value[t-1]| over the
\* consecutive pairs of observations (to 2 decimals), with no term for the first
\* observation and no value when there is no pair; it is 0 for a constant
\* series and |a - b| for a series alternating between a and b.
C12_PersistenceMae ==
    baselines_call.outcome = "returned" =>
        LET obs == Observations
            pairs == 1..(Len(obs) - 1)
            mae == baselines_call.result.persistence_mae
        IN  /\ pairs = {} => IsNA(mae)
            /\ pairs # {} =>
                 mae = Round(MeanOver(pairs, [t \in pairs |-> NumAbs(NumSub(obs[t + 1], obs[t]))]), 2)
            /\ (pairs # {} /\ \A t \in pairs : obs[t + 1] = obs[t]) => mae = Num(0)
            /\ (/\ pairs # {}
                /\ \A t \in pairs : obs[t + 1] # obs[t]
                /\ \A u \in 1..(Len(obs) - 2) : obs[u + 2] = obs[u])
                   => mae = NumAbs(NumSub(obs[2], obs[1]))

\* C12 witness: 10, 13, 10, 13 gives 3, with a first observation other than 0
C12_Witness ==
    /\ baselines_call.outcome = "returned"
    /\ Observations = <<Num(10), Num(13), Num(10), Num(13)>>
    /\ baselines_call.result.persistence_mae = Num(3)

\* C13: the climatology MAE is the mean, over the rows with an observation, of
\* the absolute deviation of the observation from the mean of the observations
\* of its day of the year, itself included (to 2 decimals); it is 0 when the
\* observations of each day of the year are all equal.
C13_ClimatologyMae ==
    (baselines_call.outcome = "returned" /\ Observed # {}) =>
        LET value == [i \in Observed |-> daily_df[i].temperature_2m_max]
            doy_mean == [i \in Observed |-> MeanOver(DoyGroup(i), [j \in DoyGroup(i) |-> value[j]])]
            mae == baselines_call.result.climatology_mae
        IN  /\ mae = Round(MeanOver(Observed,
                                     [i \in Observed |-> NumAbs(NumSub(value[i], doy_mean[i]))]), 2)
            /\ (\A i \in Observed : \A j \in DoyGroup(i) : value[j] = value[i]) => mae = Num(0)

\* C13 witness: a day of the year observed in several years with different
\* values, another observed with equal values, and a climatology MAE above 0
C13_Witness ==
    /\ baselines_call.outcome = "returned"
    /\ \E i \in Observed : \E j \in DoyGroup(i) :
          daily_df[j].temperature_2m_max # daily_df[i].temperature_2m_max
    /\ \E i \in Observed : \E j \in DoyGroup(i) \ {i} :
          daily_df[j].temperature_2m_max = daily_df[i].temperature_2m_max
    /\ baselines_call.result.climatology_mae # Num(0)

\* C14 (as claimed): a day-of-year group with fewer than 2 observations yields
\* no climatology error (NaN) on its rows, and compute_baselines returns.
C14_SmallGroupsGiveNaN ==
    baselines_call.outcome # "none" =>
        /\ baselines_call.outcome = "returned"
        /\ \A i \in 1..Len(daily_df) :
              Cardinality(DoyGroup(i)) < 2 => IsNA(baselines_call.errors[i])

\* the last date of the training series: of the rows of daily_df with a value
LastTrainingDate == MaxDate([i \in 1..Len(ProphetDf(daily_df)) |-> ProphetDf(daily_df)[i].ds])

\* the rows of the frame make_forecast returned that are dated after it
FutureRows == SelectSeq(forecast.rows, LAMBDA r : r.ds > LastTrainingDate)

\* C15: make_forecast with periods = N returns exactly N rows dated after the
\* last date of the training series, the rows of the frame are in ascending
\* date order, and no returned row before them is dated after that date; so
\* with periods = 0 no row is dated after the last training date.
C15_FutureRows ==
    forecast.outcome = "returned" =>
        /\ Len(FutureRows) = forecast.periods
        /\ \A i \in 2..Len(forecast.rows) : forecast.rows[i - 1].ds < forecast.rows[i].ds
        /\ FutureRows = SubSeq(forecast.rows, Len(forecast.rows) - forecast.periods + 1,
                               Len(forecast.rows))
        /\ forecast.periods = 0 => \A r \in Range(forecast.rows) : r.ds <= LastTrainingDate

\* C15 witness: MaxPeriods future rows after a training series that ends before
\* the last row of daily_df (its value is missing) and skips a year
C15_Witness ==
    /\ forecast.outcome = "returned"
    /\ forecast.periods = MaxPeriods
    /\ Len(FutureRows) = MaxPeriods
    /\ IsNA(daily_df[Len(daily_df)].temperature_2m_max)
    /\ \E i \in 2..Len(daily_df) : daily_df[i].date - daily_df[i - 1].date > HoursPerDay

\* the fit or the prediction of the seasonal model fails on the current input
FitFails == Len(ProphetDf(daily_df)) < MinFitRows \/ ~prophet.converges

\* C16: a render that has to fit the seasonal model (historical data, nothing
\* cached) on an input the fit fails on ends in the error message: no chart
\* trace, no seasonal row and no 7-day summary are rendered, and nothing is
\* cached; make_forecast raised and the render reported it.
C16_FitFailureReported ==
    [][(/\ tab'.render # tab.render
        /\ tab.has_historical
        /\ ~tab.cache.some
        /\ FitFails)
       => (/\ tab'.render.make_forecast = "raised"
           /\ tab'.render.shown = "error"
           /\ tab'.render.traces = <<>>
           /\ tab'.render.prophet_future = <<>>
           /\ tab'.render.next_7_dates = <<>>
           /\ tab'.cache = EmptyCache)]_vars

\* C16 witness: the error message on a page whose ensemble was available
C16_Witness ==
    /\ tab.render.shown = "error"
    /\ tab.render.make_forecast = "raised"
    /\ tab.ensemble.some
    /\ FitFails

\* a source of the tab is unavailable: None or without rows
Unavailable(frame) == ~frame.some \/ frame.rows = <<>>

\* C17 (as claimed): a render that draws the chart returns; without the
\* ensemble it draws the single-model forecast, and without that too it draws
\* the seasonal forecast alone, all its rows after the last observed date.
C17_Fallbacks ==
    tab.render.shown = "chart" =>
        /\ tab.render.outcome = "returned"
        /\ (Unavailable(tab.ensemble) /\ ~Unavailable(tab.api_fc)) =>
               (/\ "Weather Model (16-day)" \in Range(tab.render.traces)
                /\ "4-Model Ensemble (16-day)" \notin Range(tab.render.traces))
        /\ (Unavailable(tab.ensemble) /\ Unavailable(tab.api_fc)) =>
               (/\ tab.render.prophet_extension = tab.render.prophet_future
                /\ tab.render.next_7_from = "prophet"
                /\ tab.render.prophet_future # <<>> =>
                      "Seasonal extension (Prophet)" \in Range(tab.render.traces))

\* the run got its two main frames
Extracted == run.faults.extract_historical = "ok" /\ run.faults.extract_forecast = "ok"

Conforming == run.faults.daily_conforms /\ run.faults.hourly_conforms

\* C18: save is called only after both frames were validated; a run whose
\* extraction succeeded and whose daily or hourly frame does not conform ends
\* in sys.exit(1) at the validation, before transform and save: no frame is
\* transformed, save is not called, no file is written.
C18_ValidationGate ==
    /\ run.save_called => run.validated = {"daily", "hourly"}
    /\ run.files # {} => run.validated = {"daily", "hourly"}
    /\ (Extracted /\ ~Conforming /\ run.pc \notin {"extract", "supplementary", "validate"}) =>
          (/\ run.pc = "exited"
           /\ run.ended = "sys.exit(1)"
           /\ run.log[Len(run.log)] = "VALIDATION FAILED"
           /\ "transformed" \notin {run.daily_df, run.hourly_df}
           /\ ~run.save_called
           /\ run.files = {})

\* C18 witness: the daily frame passed, the hourly frame did not, the run exited
C18_Witness ==
    /\ run.pc = "exited"
    /\ run.validated = {"daily"}
    /\ ~run.faults.hourly_conforms
    /\ run.ended = "sys.exit(1)"
    /\ run.files = {}

\* C19 (as claimed): a run that stops at a failed stage, whichever, has logged
\* the failure and exited with sys.exit(1).
C19_EveryStageHandled ==
    run.pc = "exited" =>
        /\ run.ended = "sys.exit(1)"
        /\ run.log # <<>>
        /\ run.log[Len(run.log)] \in {"EXTRACTION FAILED", "VALIDATION FAILED",
                                      "TRANSFORM FAILED", "LOAD FAILED"}

\* C20: a failure of extract_sun_times or extract_air_quality leaves a frame
\* None and does not end the run: with the main data extracted, conforming,
\* transformed and written without error the run completes, whatever the
\* supplementary extracts did, and save wrote the daily and hourly files and
\* the sun and air-quality files of exactly the frames that were obtained.
C20_SupplementaryBestEffort ==
    LET sun_ok == run.faults.extract_sun_times = "ok"
        aqi_ok == run.faults.extract_air_quality = "ok"
    IN  /\ run.pc \in {"validate", "transform", "load", "done"} =>
              /\ run.sun_df = (IF sun_ok THEN "frame" ELSE "None")
              /\ run.aqi_df = (IF aqi_ok THEN "frame" ELSE "None")
        /\ (/\ Extracted /\ Conforming
            /\ run.faults.transform = "ok" /\ run.faults.to_parquet = "ok") =>
              run.pc # "exited"
        /\ run.pc = "done" =>
              run.files = {"daily/weather.parquet", "hourly/weather.parquet"}
                          \cup (IF sun_ok THEN {"sun/times.parquet"} ELSE {})
                          \cup (IF aqi_ok THEN {"aqi/quality.parquet"} ELSE {})

\* C20 witness: a completed run without sun times and with air quality
C20_Witness ==
    /\ run.pc = "done"
    /\ run.faults.extract_sun_times = "raises"
    /\ run.faults.extract_air_quality = "ok"
    /\ run.files = {"daily/weather.parquet", "hourly/weather.parquet", "aqi/quality.parquet"}
    /\ "Sun times: SKIPPED" \in Range(run.log)

----------------------------------------------------------------------------
(* C21 *)

\* the range the schema gives a column, bounds included unless stated
Within(name, v) ==
    CASE name \in {"date", "timestamp"} -> TRUE
      [] name \in {"temperature_2m_max", "temperature_2m_min", "temperature_2m"} ->
            NumLe(Num(-60), v) /\ NumLe(v, Num(60))
      [] name \in {"apparent_temperature_max", "apparent_temperature_min",
                   "apparent_temperature"} -> NumLe(Num(-80), v) /\ NumLe(v, Num(70))
      [] name \in {"relative_humidity_2m_mean", "relative_humidity_2m",
                   "precipitation_probability"} -> NumLe(Num(0), v) /\ NumLe(v, Num(100))
      [] name \in {"precipitation_sum", "precipitation", "wind_speed_10m_max",
                   "wind_speed_10m", "wind_gusts_10m", "uv_index"} -> NumLe(Num(0), v)
      [] name = "weather_code" -> NumLe(Num(0), v) /\ NumLe(v, Num(99))
      [] name \in {"daylight_duration", "visibility"} -> NumLt(Num(0), v)

\* every value of the frame is a number within its column's range
AllWithin(df) ==
    \A i \in 1..Len(df) : \A name \in DOMAIN df[i] :
        ~IsNA(df[i][name]) /\ Within(name, df[i][name])

\* C21: validate returns the frame exactly when every value lies within its
\* column's range (bounds of in_range included) and raises otherwise; a frame it
\* returns is the frame it was given and holds no out-of-range value
C21_ValidateByRange ==
    checked.outcome # "none" =>
        /\ checked.outcome = "returned" <=> AllWithin(checked.df)
        /\ checked.outcome = "raised" <=> ~AllWithin(checked.df)
        /\ checked.outcome = "returned" =>
              checked.result = checked.df /\ AllWithin(checked.result)

\* a frame with values on the bounds of their ranges was returned, and a frame
\* with a value just outside a range was refused
C21_Witness ==
    /\ checked.outcome = "returned"
    /\ \E i \in 1..Len(checked.df) :
          \/ checked.df[i]["temperature_2m_max"] = Num(60)
          \/ checked.df[i]["relative_humidity_2m_mean"] = Num(0)

----------------------------------------------------------------------------
(* C22 *)

FrameDates(frame) == {frame.rows[i].date : i \in 1..Len(frame.rows)}

\* the ensemble_mean of a frame at a date
EnsembleMeanAt(frame, date) ==
    (CHOOSE r \in Range(frame.rows) : r.date = date).ensemble_mean

----------------------------------------------------------------------------
(* C23 *)

----------------------------------------------------------------------------
(* C24 *)

\* the ten stress categories, from the coldest to the hottest
StressOrder ==
    <<"Extreme cold stress", "Very strong cold stress", "Strong cold stress",
      "Moderate cold stress", "Slight cold stress", "No thermal stress",
      "Moderate heat stress", "Strong heat stress", "Very strong heat stress",
      "Extreme heat stress">>

Rank(category) == CHOOSE k \in 1..Len(StressOrder) : StressOrder[k] = category

Comforted == enriched.fn = "add_thermal_comfort" /\ enriched.outcome # "none"

\* C24: add_thermal_comfort never fails; every apparent temperature gets exactly
\* one of the ten categories, which is a key of COMFORT_TRANSLATIONS, and of two
\* temperatures the higher never gets the colder category
C24_TotalAndMonotone ==
    Comforted =>
        /\ enriched.outcome = "returned"
        /\ Len(enriched.result) = Len(enriched.df)
        /\ \A i \in 1..Len(enriched.result) :
              /\ enriched.result[i].stress_category \in Range(StressOrder)
              /\ enriched.result[i].stress_category \in DOMAIN COMFORT_TRANSLATIONS
        /\ \A i, j \in 1..Len(enriched.result) :
              LET lower == enriched.result[i]
                  higher == enriched.result[j]
              IN  (/\ ~IsNA(lower.apparent_temperature)
                   /\ ~IsNA(higher.apparent_temperature)
                   /\ NumLe(lower.apparent_temperature, higher.apparent_temperature))
                  => Rank(lower.stress_category) <= Rank(higher.stress_category)

\* two temperatures on either side of a threshold got different categories
C24_Witness ==
    /\ Comforted
    /\ \E i, j \in 1..Len(enriched.result) :
          /\ enriched.result[i].apparent_temperature = Num(32)
          /\ enriched.result[j].apparent_temperature = Frac(65, 2)
          /\ enriched.result[i].stress_category = "Moderate heat stress"
          /\ enriched.result[j].stress_category = "Strong heat stress"

----------------------------------------------------------------------------
(* C25 *)

Labelled == enriched.fn = "synthesize_wind_label" /\ enriched.outcome # "none"

\* C25: a row is labelled dangerous when its speed is above 40 or its gusts
\* above 60, otherwise windy when its speed is above 20 or its gusts above 40,
\* otherwise it has no label; a value on a threshold is not above it
C25_WindLabel ==
    Labelled =>
        /\ Len(enriched.result) = Len(enriched.df)
        /\ \A i \in 1..Len(enriched.result) :
              LET speed == enriched.df[i].wind_speed_10m
                  gusts == enriched.df[i].wind_gusts_10m
                  dangerous == (~IsNA(speed) /\ NumLt(Num(40), speed))
                               \/ (~IsNA(gusts) /\ NumLt(Num(60), gusts))
                  windy == (~IsNA(speed) /\ NumLt(Num(20), speed))
                           \/ (~IsNA(gusts) /\ NumLt(Num(40), gusts))
              IN  enriched.result[i].wind_label =
                     IF dangerous THEN "Dangerous wind - limit time outside"
                     ELSE IF windy THEN "Windy - secure loose items"
                     ELSE NA

\* a row with both conditions was labelled dangerous, and a row on the
\* thresholds got no label
C25_Witness ==
    /\ Labelled
    /\ \E i, j \in 1..Len(enriched.result) :
          /\ enriched.df[i].wind_speed_10m = Frac(81, 2)
          /\ enriched.df[i].wind_gusts_10m = Frac(81, 2)
          /\ enriched.result[i].wind_label = "Dangerous wind - limit time outside"
          /\ enriched.df[j].wind_speed_10m = Num(20)
          /\ enriched.df[j].wind_gusts_10m = Num(40)
          /\ enriched.result[j].wind_label = NA

----------------------------------------------------------------------------
(* C26 *)

Flagged == enriched.fn = "flag_anomalies" /\ enriched.outcome # "none"

\* the days of the centred 30-day window of day i that hold a value in a column
WindowDays(column, i) ==
    {j \in 1..Len(enriched.df) :
        /\ i - 15 <= j
        /\ j <= i + 14
        /\ ~IsNA(enriched.df[j][column])}

\* the value of day i lies more than 2 standard deviations of its window away
\* from the window's mean: (x - mean)^2 > 4 * variance
Deviates(column, i) ==
    LET days == WindowDays(column, i)
        value == [j \in days |-> enriched.df[j][column]]
        mean == MeanOver(days, value)
        squares == [j \in days |-> NumMul(NumSub(value[j], mean), NumSub(value[j], mean))]
        variance == NumDivInt(SumOver(days, squares), Cardinality(days) - 1)
    IN  /\ i \in days
        /\ Cardinality(days) >= 7
        /\ NumLt(NumMul(Num(4), variance), squares[i])

CheckedColumns == {"temperature_2m_max", "wind_speed_10m_max", "relative_humidity_2m_mean"}

\* the values a column holds
Levels(column) ==
    {enriched.df[j][column] : j \in 1..Len(enriched.df)} \ {NA}

\* C26: a day is flagged exactly when, in at least one of the three checked
\* columns, its value differs from the centred 30-day rolling mean by more than
\* 2 rolling standard deviations (a window of fewer than 7 values flags
\* nothing); so no day is flagged when every checked column is constant, and a
\* single spike in an otherwise constant column is flagged when its window
\* holds 7 values or more
C26_AnomalyFlag ==
    Flagged =>
        /\ Len(enriched.result) = Len(enriched.df)
        /\ \A i \in 1..Len(enriched.result) :
              enriched.result[i].is_anomaly <=> \E column \in CheckedColumns : Deviates(column, i)
        /\ (\A column \in CheckedColumns : Cardinality(Levels(column)) <= 1) =>
              \A i \in 1..Len(enriched.result) : ~enriched.result[i].is_anomaly
        /\ \A column \in CheckedColumns : \A i \in 1..Len(enriched.df) :
              (/\ ~IsNA(enriched.df[i][column])
               /\ Cardinality(Levels(column)) = 2
               /\ \A j \in 1..Len(enriched.df) :
                     j # i => enriched.df[j][column] # enriched.df[i][column]
               /\ Cardinality(WindowDays(column, i)) >= 7)
              => enriched.result[i].is_anomaly

\* the first day of a frame longer than half a window holds the only spike and
\* is flagged, and no other day is
C26_Witness ==
    /\ Flagged
    /\ Len(enriched.df) > 15
    /\ enriched.df[1]["wind_speed_10m_max"] = Num(35)
    /\ enriched.result[1].is_anomaly
    /\ \A i \in 2..Len(enriched.result) : ~enriched.result[i].is_anomaly

----------------------------------------------------------------------------
(* C27 *)

FromCache == tab.render.shown = "chart" /\ tab.render.make_forecast = "not called"

\* C27: a forecast that render_forecast takes from the cache was computed from
\* a daily_df with the row count and the last date of the daily_df it is
\* rendered for; a change of either makes the render call make_forecast
C27_CacheKeyedBySizeAndRecency ==
    FromCache => tab.render.forecast_of = tab.render.df_hash

\* C28: the rows a render keeps as the seasonal outlook, from a forecast it
\* computed itself from the frame it shows, number the 30 periods it asked for,
\* also when the last rows of daily_df have no metric value
FreshForecast ==
    /\ tab.render.shown = "chart"
    /\ tab.render.make_forecast = "returned"

C28_OutlookHasAllPeriods ==
    FreshForecast => Len(tab.render.prophet_future) = ForecastPeriods

\* C29: every row a render plots as the Prophet seasonal extension is dated
\* strictly after the last observed date and strictly after the last date of
\* the NWP forecast it plots, the ensemble or the single-model fallback
C29_ExtensionBeyondTraces ==
    tab.render.shown = "chart" =>
        \A i \in 1..Len(tab.render.prophet_extension) :
            LET ds == tab.render.prophet_extension[i].ds
            IN  /\ \A last_date \in Range(tab.render.last_date) : ds > last_date
                /\ \A ensemble_end \in Range(tab.render.ensemble_end) : ds > ensemble_end

\* a chart with an NWP trace that ends after the observations, and a seasonal
\* extension cut down from the outlook to the days beyond it
C29_Witness ==
    /\ tab.render.shown = "chart"
    /\ tab.render.ensemble_end # <<>>
    /\ tab.render.ensemble_end[1] > tab.render.last_date[1]
    /\ Len(tab.render.prophet_extension) > 0
    /\ Len(tab.render.prophet_extension) < Len(tab.render.prophet_future)

\* C30: the prophet_mae entry of every non-empty report of evaluate_all_models
\* is the constant 3.99 whatever the observations and the fetched model data,
\* the report before a revision of the inputs included; every other entry
\* follows the inputs
InputEntries ==
    {"ensemble_corrected_mae", "ensemble_raw_mae", "model_maes", "nwp_bias",
     "persistence_mae", "climatology_mae", "n_days"}

C30_ProphetMaeConstant ==
    /\ report # <<>> =>
         /\ DOMAIN report = InputEntries \cup {"prophet_mae"}
         /\ report.prophet_mae = <<399, 100>>
    /\ prev.report # <<>> => prev.report.prophet_mae = <<399, 100>>

\* two reports around the revision of one observation: prophet_mae is the same
\* and every other entry differs, but climatology_mae, which is 0 for any
\* history shorter than a year (each day of year occurs once)
C30_Witness ==
    /\ phase = "reevaluated"
    /\ report # <<>>
    /\ prev.report # <<>>
    /\ \A k \in InputEntries \ {"climatology_mae"} : report[k] # prev.report[k]
    /\ report.prophet_mae = prev.report.prophet_mae

====
